---- MODULE Spec2Model ----
\* A model of go-corset: the trace checker (vanishing constraints and property
\* assertions of an HIR schema) and the symbol resolver (initialise / finalise).
EXTENDS Integers, Sequences, FiniteSets, TLC

\* ------------------------------------------------------------------ bounds
\* Largest module height of a trace.
MaxHeight == 3
\* Column accesses have a shift in -MaxShift..MaxShift.
MaxShift == 1
\* A row domain is one of -MaxDomain..MaxDomain.
MaxDomain == 2
\* Number of property assertions added to a schema.
MaxAssertions == 1

\* ---------------------------------------------------------------- machine
\* Go's uint and int are 64 bits wide; the model keeps the wrap-around of
\* uint(int) and int(uint) but scales the word down to 16 bits.
UintSize == 65536

ToUint(i) == i % UintSize

ToInt(k) == IF k >= UintSize \div 2 THEN k - UintSize ELSE k

NoFailure == [kind |-> "nil"]

\* The domain of a vanishing constraint is a *int: nil (a global constraint) is
\* the empty sequence and a pointer to the row i is <<i>>.
NoDomain == <<>>

\* ------------------------------------------------------------------ state
VARIABLES
    trace,      \* the trace being checked: one module, one column
    schema,     \* hir.Schema: constraints and assertions
    runs,       \* the constraints visited by the last Accepts(schema, trace)
    verdict,    \* the result of the last Accepts(schema, trace)
    cpc         \* "build" until Accepts has run, then "checked"

checkVars == <<trace, schema, runs, verdict, cpc>>

VARIABLES
    decls,      \* the declarations of the module being resolved
    scope,      \* ModuleScope: the binding of every name
    rpc,        \* "initialise", "visit" (inside a pass), "done"
    idx,        \* index into decls of the declaration visited next
    changed,    \* finaliseDeclarationsInModule: changed
    complete,   \* finaliseDeclarationsInModule: complete
    counter,    \* finaliseDeclarationsInModule: counter
    incomplete, \* finaliseDeclarationsInModule: incomplete (index, 0 is nil)
    errors,     \* the errors of the current pass
    result,     \* the errors returned by resolveDeclarationsInModule
    returned,   \* what ResolveCircuit returns: "none" yet, "nil", "scope"
    npass,      \* history: number of the current pass
    log,        \* history: the calls of finaliseDeclaration
    finalAtStart, \* history: declarations finalised when the pass began
    stuckAt     \* history: first pass without progress (0: none)

resVars == <<decls, scope, rpc, idx, changed, complete, counter, incomplete,
             errors, result, returned, npass, log, finalAtStart, stuckAt>>

VARIABLES
    fsources,   \* the bindings of the sources of a declaration being finalised
    ftargets,   \* the bindings of its targets
    ferrors,    \* the errors finalising reported
    fpc         \* "ready", "interleaved", "permuted"

finVars == <<fsources, ftargets, ferrors, fpc>>

VARIABLES
    edecl,      \* the declaration whose expressions are being finalised
    escopes,    \* the local scopes made for it, as they are afterwards
    eerrors,    \* the errors finalising it returned
    jargs,      \* the contexts of the sub-expressions given to JoinContexts
    jresult,    \* what JoinContexts returned
    dresult,    \* what DetermineEnclosingModuleOfExpressions returned
    epc         \* "ready", then the operation that ran

exprVars == <<edecl, escopes, eerrors, jargs, jresult, dresult, epc>>

VARIABLES
    hsch,       \* hir.Schema: modules, inputs, assignments
    ret,        \* history: what each AddAssignment returned
    lastAdd,    \* history: the last AddDataColumn call and how it ended
    xrun,       \* the assignments ExpandTrace has run, in order
    xerr,       \* what ExpandTrace returned
    atrace,     \* the columns of the trace given to Align or AlignInputs
    aresult,    \* the trace as the alignment left it, and the error returned
    spc         \* "build", "panicked", "expanded", "aligned"

schVars == <<hsch, ret, lastAdd, xrun, xerr, atrace, aresult, spc>>

VARIABLES
    cfg,        \* checkConfig: the flags of the check command
    ctrace,     \* the trace read from the trace file
    cschema,    \* the HIR schema read from the constraint file
    checks,     \* the calls of checkTrace made: level, trace accepted on, error
    out,        \* the lines printed
    exitCode,   \* the exit status of the command
    kpc         \* "ready", then "exited"

cmdVars == <<cfg, ctrace, cschema, checks, out, exitCode, kpc>>

VARIABLES
    iargs,      \* the translated arguments of the form given to sexpIf / sexpIfNot
    irow,       \* the values of the columns C, T and E on the row evaluated
    ibuilt,     \* the expression the parser built
    ierr,       \* the error the parser returned; <<>> is nil
    hval,       \* the value of the built expression on the row
    mval,       \* the value of the lowered expression on the row
    ipc         \* "ready", then the form translated

ifVars == <<iargs, irow, ibuilt, ierr, hval, mval, ipc>>

VARIABLES
    mexpr,      \* the MIR expression given
    mfolded,    \* what applyConstantPropagation returned for it
    mlowered,   \* what LowerToAir returned for it, or that it panicked
    mpc         \* "ready", then "folded" or "lowered"

mirVars == <<mexpr, mfolded, mlowered, mpc>>

\* the variables of the components added to the first three
extVars == <<exprVars, schVars, cmdVars, ifVars, mirVars>>

vars == <<checkVars, resVars, finVars, extVars>>

\* ------------------------------------------------------------ expressions
\* The body of a constraint is an HIR expression: a ColumnAccess of the column
\* with a shift, or a List of them (given as the sequence of the shifts).
Shifts == (0 - MaxShift)..MaxShift

Bodies == { <<s>> : s \in Shifts } \cup
          { q \in Shifts \X Shifts : q[1] < q[2] }

\* The cells of a column are field elements; a zero test tells only zero from
\* non-zero, so the traces enumerated hold 0 and one non-zero element.
FieldValues == {0, 1}

Domains == {NoDomain} \cup { <<i>> : i \in (0 - MaxDomain)..MaxDomain }

Max(a, b) == IF a >= b THEN a ELSE b

\* tr.Height(ctx)
Height(tr) == Len(tr.data)

\* Column.Get(row): the cell of the row, or the padding value of the column
\* when the row is outside the column.
Get(tr, row) ==
    IF row < 0 \/ row >= Len(tr.data) THEN tr.padding ELSE tr.data[row + 1]

\* Expr.EvalAllAt(row, trace): one value per element of the body.
EvalAllAt(body, row, tr) == [j \in 1..Len(body) |-> Get(tr, row + body[j])]

\* Expr.Bounds(): how far the body reads before (Start) and after (End) its row.
RECURSIVE Bounds(_)
Bounds(body) ==
    IF body = <<>> THEN [Start |-> 0, End |-> 0]
    ELSE LET s == Head(body)
             rest == Bounds(Tail(body))
         IN [Start |-> Max(rest.Start, IF s < 0 THEN 0 - s ELSE 0),
             End |-> Max(rest.End, IF s > 0 THEN s ELSE 0)]

\* ZeroArrayTest.TestAt
TestAt(body, row, tr) ==
    LET vals == EvalAllAt(body, row, tr)
    IN \A j \in 1..Len(vals) : vals[j] = 0

\* ----------------------------------------------------- vanishing constraint
\* HoldsLocally(k, handle, constraint, tr): the failure, with the row tested.
HoldsLocally(k, handle, body, tr) ==
    [failure |-> IF ~TestAt(body, ToInt(k), tr)
                 THEN [kind |-> "VanishingFailure", handle |-> handle, row |-> k]
                 ELSE NoFailure,
     tested |-> <<ToInt(k)>>]

\* the for loop of HoldsGlobally, from row k up to limit (exclusive)
RECURSIVE HoldsGloballyLoop(_, _, _, _, _, _)
HoldsGloballyLoop(k, limit, handle, body, tr, tested) ==
    IF k < limit
    THEN LET r == HoldsLocally(k, handle, body, tr)
         IN IF r.failure # NoFailure
            THEN [failure |-> r.failure, tested |-> tested \o r.tested]
            ELSE HoldsGloballyLoop(k + 1, limit, handle, body, tr,
                                   tested \o r.tested)
    ELSE [failure |-> NoFailure, tested |-> tested]

\* a variant that tests every row of the module, whatever the bounds
HoldsGloballyAllRows(handle, body, tr) ==
    HoldsGloballyLoop(0, Height(tr), handle, body, tr, <<>>)

HoldsGlobally(handle, body, tr) ==
    LET height == Height(tr)
        bounds == Bounds(body)
    IN IF bounds.End < height
       THEN HoldsGloballyLoop(bounds.Start, ToUint(height - bounds.End),
                              handle, body, tr, <<>>)
       ELSE [failure |-> NoFailure, tested |-> <<>>]

\* a variant that takes a negative domain as a row from the start
VanishingAcceptsNoWrap(c, tr) ==
    IF c.domain = NoDomain
    THEN HoldsGlobally(c.handle, c.body, tr)
    ELSE HoldsLocally(ToUint(c.domain[1]), c.handle, c.body, tr)

\* VanishingConstraint.Accepts
VanishingAccepts(c, tr) ==
    IF c.domain = NoDomain
    THEN HoldsGlobally(c.handle, c.body, tr)
    ELSE LET start == IF c.domain[1] < 0
                      THEN ToUint(Height(tr) + ToUint(c.domain[1]))
                      ELSE ToUint(c.domain[1])
         IN HoldsLocally(start, c.handle, c.body, tr)

\* ----------------------------------------------------------------- schema
ConstraintsAndAssertions(sch) == sch.constraints \o sch.assertions

\* Schema.Constraints()
Constraints(sch) == sch.constraints

\* the loop of Accepts(schema, trace) over the constraints from index i
RECURSIVE AcceptsLoop(_, _, _, _)
AcceptsLoop(cs, i, tr, visited) ==
    IF i > Len(cs) THEN [failure |-> NoFailure, runs |-> visited]
    ELSE LET r == VanishingAccepts(cs[i], tr)
             v == Append(visited, [constraint |-> cs[i], failure |-> r.failure,
                                   tested |-> r.tested])
         IN IF r.failure # NoFailure
            THEN [failure |-> r.failure, runs |-> v]
            ELSE AcceptsLoop(cs, i + 1, tr, v)

\* schema.Accepts(schema, trace)
Accepts(sch, tr) == AcceptsLoop(Constraints(sch), 1, tr, <<>>)

\* ---------------------------------------------------------------- actions
Traces ==
    { [data |-> d, padding |-> p] :
        d \in UNION { [1..h -> FieldValues] : h \in 0..MaxHeight },
        p \in FieldValues }

\* EmptySchema(), and a trace read from a file
CheckInit ==
    /\ trace \in Traces
    /\ schema = [constraints |-> <<>>, assertions |-> <<>>]
    /\ runs = <<>>
    /\ verdict = NoFailure
    /\ cpc = "build"

\* Schema.AddVanishingConstraint(handle, context, domain, expr); the schemas
\* enumerated hold one vanishing constraint.
AddVanishingConstraint ==
    /\ cpc = "build"
    /\ schema.constraints = <<>>
    /\ \E domain \in Domains, expr \in Bodies :
         schema' = [schema EXCEPT !.constraints =
                      Append(@, [handle |-> "c", domain |-> domain, body |-> expr])]
    /\ UNCHANGED <<trace, runs, verdict, cpc, resVars, finVars, extVars>>

\* Schema.AddPropertyAssertion(module, handle, property)
AddPropertyAssertion ==
    /\ cpc = "build"
    /\ Len(schema.assertions) < MaxAssertions
    /\ \E property \in Bodies :
         schema' = [schema EXCEPT !.assertions =
                      Append(@, [handle |-> "a", domain |-> NoDomain,
                                 body |-> property])]
    /\ UNCHANGED <<trace, runs, verdict, cpc, resVars, finVars, extVars>>

\* schema.Accepts(schema, trace), as padAndCheckTrace calls it
CheckTrace ==
    /\ cpc = "build"
    /\ LET r == Accepts(schema, trace)
       IN /\ runs' = r.runs
          /\ verdict' = r.failure
    /\ cpc' = "checked"
    /\ UNCHANGED <<trace, schema, resVars, finVars, extVars>>

\* --------------------------------------------------------------- resolver
\* Types of columns: fixed-width unsigned integers and the field type; NilType
\* is the nil schema.Type of a binding that is not finalised.
FieldType == [kind |-> "field", width |-> 0]

UintType(w) == [kind |-> "uint", width |-> w]

NilType == [kind |-> "nil", width |-> 0]

DataTypes == {UintType(8), UintType(16), FieldType}

\* Type.AsUint() != nil
AsUint(t) == t.kind = "uint"

\* schema.Join(a, b): the least type holding the values of both
Join(a, b) ==
    IF a.kind = "uint" /\ b.kind = "uint"
    THEN (IF a.width >= b.width THEN a ELSE b)
    ELSE FieldType

\* ColumnBinding of a declared column; a name that is not declared has none.
Binding(m, t) == [declared |-> TRUE, multiplier |-> m, dataType |-> t]

Unbound == [declared |-> FALSE, multiplier |-> 0, dataType |-> NilType]

\* ColumnBinding.IsFinalised
IsFinalised(b) == b.multiplier # 0

SyntaxError(node, msg) == [node |-> node, msg |-> msg]

\* the loop of finaliseDefInterleavedInModule over the sources from index i
RECURSIVE InterleavedLoop(_, _, _, _, _)
InterleavedLoop(srcs, i, lm, dt, errs) ==
    IF i > Len(srcs) THEN [multiplier |-> lm, dataType |-> dt, errors |-> errs]
    ELSE LET b == srcs[i]
             lm1 == IF i = 1 THEN b.multiplier ELSE lm
             dt1 == IF i = 1 THEN b.dataType ELSE dt
             errs1 == IF i # 1 /\ b.multiplier # lm
                      THEN Append(errs, SyntaxError(i,
                               "incompatible length multiplier"))
                      ELSE errs
         IN InterleavedLoop(srcs, i + 1, lm1, Join(dt1, b.dataType), errs1)

\* a variant that does not compare the multipliers of the sources
finaliseDefInterleavedNoCheck(srcs, target) ==
    LET r == InterleavedLoop(srcs, 1, 0, NilType, <<>>)
    IN [errors |-> <<>>,
        target |-> Binding(r.multiplier * Len(srcs), r.dataType)]

\* a variant that adds to the multiplier the target has
finaliseDefInterleavedOnto(srcs, target) ==
    LET r == InterleavedLoop(srcs, 1, 0, NilType, <<>>)
    IN [errors |-> r.errors,
        target |-> IF Len(r.errors) = 0
                   THEN Binding(target.multiplier + r.multiplier * Len(srcs),
                                r.dataType)
                   ELSE target]

\* resolver.finaliseDefInterleavedInModule, on the bindings of the sources
\* and of the target: the errors and the binding of the target afterwards
finaliseDefInterleavedInModule(srcs, target) ==
    LET r == InterleavedLoop(srcs, 1, 0, NilType, <<>>)
    IN [errors |-> r.errors,
        target |-> IF Len(r.errors) = 0
                   THEN Binding(r.multiplier * Len(srcs), r.dataType)
                   ELSE target]

\* the loop of finaliseDefPermutationInModule over the sources from index i
RECURSIVE PermutationLoop(_, _, _, _, _)
PermutationLoop(srcs, i, multiplier, targets, errs) ==
    IF i > Len(srcs) THEN [errors |-> errs, targets |-> targets]
    ELSE LET source == srcs[i]
             errs1 ==
                IF i = 1 /\ ~AsUint(source.dataType)
                THEN Append(errs, SyntaxError(i, "fixed-width type required"))
                ELSE IF i # 1 /\ multiplier # source.multiplier
                THEN Append(errs, SyntaxError(i,
                         "incompatible length multiplier"))
                ELSE errs
             m1 == IF i = 1 /\ AsUint(source.dataType)
                   THEN source.multiplier ELSE multiplier
         IN PermutationLoop(srcs, i + 1, m1,
                [targets EXCEPT ![i] =
                    Binding(source.multiplier, source.dataType)],
                errs1)

\* resolver.finaliseDefPermutationInModule, on the bindings of the sources
\* and of the targets
finaliseDefPermutationInModule(srcs, targets) ==
    PermutationLoop(srcs, 1, 0, targets, <<>>)

\* ----------------------------------------------------------- declarations
\* A declaration: defcolumns (columns with their declared type and
\* multiplier), definterleaved (one target, sources), defpermutation.
DefColumns(cols) == [kind |-> "defcolumns", targets |-> cols, sources |-> <<>>]

DefInterleaved(target, srcs) ==
    [kind |-> "definterleaved",
     targets |-> <<[name |-> target, multiplier |-> 0, dataType |-> NilType]>>,
     sources |-> srcs]

DefPermutation(targets, srcs) ==
    [kind |-> "defpermutation",
     targets |-> [i \in 1..Len(targets) |->
                    [name |-> targets[i], multiplier |-> 0, dataType |-> NilType]],
     sources |-> srcs]

DefColumn(name, m, t) == [name |-> name, multiplier |-> m, dataType |-> t]

Names == {"X", "A", "B", "C", "D", "P"}

\* the declarations modules are made of
DeclPool ==
    { DefColumns(<<DefColumn("X", 1, UintType(8))>>),
      DefInterleaved("A", <<"X">>),
      DefInterleaved("B", <<"A">>),
      DefInterleaved("C", <<"B">>),
      DefInterleaved("D", <<"C">>),
      DefInterleaved("A", <<"B">>),
      DefPermutation(<<"P">>, <<"A">>) }

\* Declaration.Definitions() of all declarations, in order
RECURSIVE Definitions(_)
Definitions(ds) ==
    IF ds = <<>> THEN <<>> ELSE Head(ds).targets \o Definitions(Tail(ds))

\* the loops of initialiseDeclarationsInModule over the definitions from
\* index i: scope.Declare fails for a name the scope already holds
RECURSIVE InitialiseLoop(_, _, _, _)
InitialiseLoop(defs, i, sc, errs) ==
    IF i > Len(defs) THEN [scope |-> sc, errors |-> errs]
    ELSE LET def == defs[i]
         IN IF sc[def.name].declared
            THEN InitialiseLoop(defs, i + 1, sc,
                    Append(errs, SyntaxError(def.name, "already declared")))
            ELSE InitialiseLoop(defs, i + 1,
                    [sc EXCEPT ![def.name] =
                        Binding(def.multiplier, def.dataType)],
                    errs)

\* a variant that stops reporting after the first name declared twice
initialiseDeclarationsFirstOnly(sc, ds) ==
    LET r == InitialiseLoop(Definitions(ds), 1, sc, <<>>)
    IN [scope |-> r.scope,
        errors |-> IF r.errors = <<>> THEN <<>> ELSE <<r.errors[1]>>]

\* resolver.initialiseDeclarationsInModule
initialiseDeclarationsInModule(sc, ds) ==
    InitialiseLoop(Definitions(ds), 1, sc, <<>>)

\* the loop of declarationDependenciesAreFinalised over the symbols from i
RECURSIVE DependenciesLoop(_, _, _, _, _)
DependenciesLoop(sc, symbols, i, finalised, errs) ==
    IF i > Len(symbols) THEN [ready |-> finalised, errors |-> errs]
    ELSE IF ~sc[symbols[i]].declared
    THEN DependenciesLoop(sc, symbols, i + 1, FALSE,
            Append(errs, SyntaxError(symbols[i], "unknown symbol")))
    ELSE IF ~IsFinalised(sc[symbols[i]])
    THEN DependenciesLoop(sc, symbols, i + 1, FALSE, errs)
    ELSE DependenciesLoop(sc, symbols, i + 1, finalised, errs)

\* a variant that only asks for the symbols to be bound
dependenciesAreBound(sc, symbols) ==
    [ready |-> \A i \in 1..Len(symbols) : sc[symbols[i]].declared,
     errors |-> DependenciesLoop(sc, symbols, 1, TRUE, <<>>).errors]

\* resolver.declarationDependenciesAreFinalised
declarationDependenciesAreFinalised(sc, symbols) ==
    DependenciesLoop(sc, symbols, 1, TRUE, <<>>)

BindingsOf(sc, names) == [i \in 1..Len(names) |-> sc[names[i]]]

TargetNames(d) == [i \in 1..Len(d.targets) |-> d.targets[i].name]

\* resolver.finaliseDeclaration: the errors and the scope afterwards
finaliseDeclaration(sc, d) ==
    IF d.kind = "definterleaved"
    THEN LET r == finaliseDefInterleavedInModule(BindingsOf(sc, d.sources),
                                                 sc[d.targets[1].name])
         IN [errors |-> r.errors,
             scope |-> [sc EXCEPT ![d.targets[1].name] = r.target]]
    ELSE IF d.kind = "defpermutation"
    THEN LET r == finaliseDefPermutationInModule(BindingsOf(sc, d.sources),
                        BindingsOf(sc, TargetNames(d)))
         IN [errors |-> r.errors,
             scope |-> [n \in Names |->
                          IF \E i \in 1..Len(d.targets) : d.targets[i].name = n
                          THEN r.targets[CHOOSE i \in 1..Len(d.targets) :
                                            d.targets[i].name = n]
                          ELSE sc[n]]]
    ELSE [errors |-> <<>>, scope |-> sc]

\* Declaration.IsFinalised: the bindings of all its targets are finalised
DeclIsFinalised(sc, d) ==
    \A i \in 1..Len(d.targets) : IsFinalised(sc[d.targets[i].name])

\* the iteration cap of finaliseDeclarationsInModule
IterationCap == 4

\* Largest number of declarations of a module.
MaxDecls == 5

SeqsUpTo(S, n) == UNION { [1..k -> S] : k \in 1..n }

ResolveInit ==
    /\ decls \in SeqsUpTo(DeclPool, MaxDecls)
    /\ scope = [n \in Names |-> Unbound]
    /\ rpc = "initialise"
    /\ idx = 0
    /\ changed = TRUE
    /\ complete = FALSE
    /\ counter = IterationCap
    /\ incomplete = 0
    /\ errors = <<>>
    /\ result = <<>>
    /\ returned = "none"
    /\ npass = 0
    /\ log = <<>>
    /\ finalAtStart = {}
    /\ stuckAt = 0

\* ResolveCircuit, lines 31-35: no scope when there are errors
ReturnOf(errs) == IF Len(errs) > 0 THEN "nil" ELSE "scope"

FinalisedDecls(sc) == { d \in 1..Len(decls) : DeclIsFinalised(sc, decls[d]) }

\* resolveDeclarationsInModule up to the first pass of the finalise loop:
\* initialise, return its errors if any, else enter the loop (changed is true,
\* complete false and counter 4, so the first pass always runs)
Initialise ==
    /\ rpc = "initialise"
    /\ LET r == initialiseDeclarationsInModule(scope, decls)
       IN IF Len(r.errors) > 0
          THEN /\ result' = r.errors
               /\ returned' = ReturnOf(r.errors)
               /\ rpc' = "done"
               /\ UNCHANGED <<scope, idx, changed, complete, npass,
                              finalAtStart>>
          ELSE /\ scope' = r.scope
               /\ rpc' = "visit"
               /\ idx' = 1
               /\ changed' = FALSE
               /\ complete' = TRUE
               /\ npass' = 1
               /\ finalAtStart' = FinalisedDecls(r.scope)
               /\ UNCHANGED <<result, returned>>
    /\ UNCHANGED <<decls, counter, incomplete, errors, log, stuckAt,
                   checkVars, finVars, extVars>>

\* one iteration of the loop over the declarations (lines 131-147)
VisitDeclaration ==
    /\ rpc = "visit"
    /\ idx <= Len(decls)
    /\ LET d == decls[idx]
           dep == declarationDependenciesAreFinalised(scope, d.sources)
           fin == finaliseDeclaration(scope, d)
       IN IF Len(dep.errors) > 0
          THEN /\ errors' = errors \o dep.errors
               /\ UNCHANGED <<scope, changed, complete, incomplete, log>>
          ELSE IF dep.ready
          THEN /\ errors' = errors \o fin.errors
               /\ changed' = (changed \/ Len(fin.errors) = 0)
               /\ scope' = fin.scope
               /\ log' = Append(log,
                    [decl |-> idx, pass |-> npass, nerrors |-> Len(fin.errors),
                     unready |-> { i \in 1..Len(d.sources) :
                                     \/ ~scope[d.sources[i]].declared
                                     \/ scope[d.sources[i]].multiplier = 0 }])
               /\ UNCHANGED <<complete, incomplete>>
          ELSE /\ complete' = FALSE
               /\ incomplete' = idx
               /\ UNCHANGED <<scope, changed, errors, log>>
    /\ idx' = idx + 1
    /\ UNCHANGED <<decls, rpc, counter, result, returned, npass, finalAtStart,
                   stuckAt, checkVars, finVars, extVars>>

\* a variant of the end of a pass whose loop has no counter: it goes on while
\* changed && !complete (the passes after the cap are counted as one)
EndPassNoCounter ==
    /\ rpc = "visit"
    /\ idx > Len(decls)
    /\ IF Len(errors) > 0
       THEN /\ result' = errors
            /\ returned' = ReturnOf(errors)
            /\ rpc' = "done"
            /\ UNCHANGED <<idx, changed, complete, errors, npass, finalAtStart>>
       ELSE IF changed /\ ~complete
       THEN /\ errors' = <<>>
            /\ changed' = FALSE
            /\ complete' = TRUE
            /\ idx' = 1
            /\ npass' = IF npass <= IterationCap THEN npass + 1 ELSE npass
            /\ finalAtStart' = FinalisedDecls(scope)
            /\ UNCHANGED <<rpc, result, returned>>
       ELSE /\ result' =
                 IF ~complete
                 THEN <<SyntaxError(incomplete, "cyclic declaration")>>
                 ELSE <<>>
            /\ returned' = ReturnOf(result')
            /\ rpc' = "done"
            /\ UNCHANGED <<idx, changed, complete, errors, npass, finalAtStart>>
    /\ UNCHANGED <<decls, scope, incomplete, log, counter, stuckAt, checkVars,
                   finVars, extVars>>

\* the end of a pass (lines 148-154), the test of the loop (line 126) and,
\* when the loop ends, the return of finaliseDeclarationsInModule (155-166)
EndPass ==
    /\ rpc = "visit"
    /\ idx > Len(decls)
    /\ stuckAt' =
         IF /\ stuckAt = 0
            /\ Len(errors) = 0
            /\ FinalisedDecls(scope) \subseteq finalAtStart
            /\ \E d \in 1..Len(decls) :
                 \A k \in 1..Len(log) : ~(log[k].decl = d /\ log[k].pass = npass)
         THEN npass ELSE stuckAt
    /\ IF Len(errors) > 0
       THEN /\ result' = errors
            /\ returned' = ReturnOf(errors)
            /\ rpc' = "done"
            /\ UNCHANGED <<idx, changed, complete, counter, errors, npass,
                           finalAtStart>>
       ELSE IF changed /\ ~complete /\ counter - 1 > 0
       THEN /\ counter' = counter - 1
            /\ errors' = <<>>
            /\ changed' = FALSE
            /\ complete' = TRUE
            /\ idx' = 1
            /\ npass' = npass + 1
            /\ finalAtStart' = FinalisedDecls(scope)
            /\ UNCHANGED <<rpc, result, returned>>
       ELSE /\ counter' = counter - 1
            /\ result' =
                 IF counter - 1 = 0
                 THEN <<SyntaxError(incomplete, "unable to complete resolution")>>
                 ELSE IF ~complete
                 THEN <<SyntaxError(incomplete, "cyclic declaration")>>
                 ELSE <<>>
            /\ returned' = ReturnOf(result')
            /\ rpc' = "done"
            /\ UNCHANGED <<idx, changed, complete, errors, npass, finalAtStart>>
    /\ UNCHANGED <<decls, scope, incomplete, log, checkVars, finVars, extVars>>

ResolveNext == Initialise \/ VisitDeclaration \/ EndPass

\* The same code as one function of the list of declarations. The state of
\* the loop is the scope with changed, complete, incomplete and the errors of
\* the pass; FinalisePass is the loop over the declarations from index i.
RECURSIVE FinalisePass(_, _, _)
PassFinalised(ds, i, st, fin) ==
    FinalisePass(ds, i + 1,
        [st EXCEPT !.scope = fin.scope,
                   !.errors = @ \o fin.errors,
                   !.changed = @ \/ Len(fin.errors) = 0])

PassVisit(ds, i, st, dep) ==
    IF Len(dep.errors) > 0
    THEN FinalisePass(ds, i + 1, [st EXCEPT !.errors = @ \o dep.errors])
    ELSE IF dep.ready
    THEN PassFinalised(ds, i, st, finaliseDeclaration(st.scope, ds[i]))
    ELSE FinalisePass(ds, i + 1,
             [st EXCEPT !.complete = FALSE, !.incomplete = i])

FinalisePass(ds, i, st) ==
    IF i > Len(ds) THEN st
    ELSE PassVisit(ds, i, st,
             declarationDependenciesAreFinalised(st.scope, ds[i].sources))

\* the loop of finaliseDeclarationsInModule from its test, and its return;
\* left is the counter
RECURSIVE FinaliseLoop(_, _, _)
PassEnded(ds, st, left) ==
    IF Len(st.errors) > 0 THEN st.errors
    ELSE FinaliseLoop(ds, st, left - 1)

FinaliseLoop(ds, st, left) ==
    IF st.changed /\ ~st.complete /\ left > 0
    THEN PassEnded(ds, FinalisePass(ds, 1,
                          [st EXCEPT !.changed = FALSE, !.complete = TRUE,
                                     !.errors = <<>>]),
                   left)
    ELSE IF left = 0
    THEN <<SyntaxError(st.incomplete, "unable to complete resolution")>>
    ELSE IF ~st.complete
    THEN <<SyntaxError(st.incomplete, "cyclic declaration")>>
    ELSE <<>>

\* resolver.finaliseDeclarationsInModule(scope, decls): the errors returned
finaliseDeclarationsInModule(sc, ds) ==
    FinaliseLoop(ds, [scope |-> sc, changed |-> TRUE, complete |-> FALSE,
                      incomplete |-> 0, errors |-> <<>>], IterationCap)

\* resolver.resolveDeclarationsInModule(scope, decls), on an empty scope
Initialised(ds, r) ==
    IF Len(r.errors) > 0 THEN r.errors
    ELSE finaliseDeclarationsInModule(r.scope, ds)

resolveDeclarationsInModule(ds) ==
    Initialised(ds, initialiseDeclarationsInModule([n \in Names |-> Unbound], ds))

\* ------------------------------------------------- finalising one declaration
MaxSources == 3

MaxMultiplier == 2

SourceBindings ==
    { Binding(m, t) : m \in 1..MaxMultiplier, t \in DataTypes }

FinaliseInit ==
    /\ fsources \in SeqsUpTo(SourceBindings, MaxSources)
    /\ ftargets = [i \in 1..Len(fsources) |-> Binding(0, NilType)]
    /\ ferrors = <<>>
    /\ fpc = "ready"

\* finaliseDefInterleavedInModule of an interleaving of the sources
FinaliseInterleaved ==
    /\ fpc = "ready"
    /\ LET r == finaliseDefInterleavedInModule(fsources, ftargets[1])
       IN /\ ferrors' = r.errors
          /\ ftargets' = [ftargets EXCEPT ![1] = r.target]
    /\ fpc' = "interleaved"
    /\ UNCHANGED <<fsources, checkVars, resVars, extVars>>

\* finaliseDefPermutationInModule of a permutation of the sources
FinalisePermutation ==
    /\ fpc = "ready"
    /\ LET r == finaliseDefPermutationInModule(fsources, ftargets)
       IN /\ ferrors' = r.errors
          /\ ftargets' = r.targets
    /\ fpc' = "permuted"
    /\ UNCHANGED <<fsources, checkVars, resVars, extVars>>

FinaliseNext == FinaliseInterleaved \/ FinalisePermutation

\* ------------------------------------------- expressions of declarations
\* Largest number of variable accesses in one expression list.
MaxAccesses == 2

\* Largest number of sub-expressions given to JoinContexts.
MaxJoinArgs == 3

\* math.MaxUint, the module index of an expression without a context
MaxUint == UintSize - 1

\* trace.Context: a module and a length multiplier
Context(m, lm) == [module |-> m, multiplier |-> lm]

VoidContext == [module |-> MaxUint, multiplier |-> 0]

\* the contexts of the columns accessed
ColumnContexts == {Context(0, 1), Context(1, 1), Context(0, 2)}

\* the modules of the circuit
KnownModules == {"m1", "m2"}

\* A VariableAccess: the module of a qualified access (<<>> when it is not
\* qualified) and what the symbol is resolved to: a column with its context,
\* something that is not a column, or nothing yet.
VariableAccess(module, kind, ctx) ==
    [module |-> module, kind |-> kind, context |-> ctx]

AccessPool ==
    { VariableAccess(m, "column", c) : m \in {<<>>, <<"m1">>}, c \in ColumnContexts }
    \cup { VariableAccess(m, "unresolved", VoidContext) : m \in {<<>>, <<"m1">>} }
    \cup { VariableAccess(<<"zz">>, "column", Context(0, 1)),
           VariableAccess(<<>>, "constant", VoidContext) }

\* the name of every access that is not resolved
ParameterName == "p"

\* NewLocalScope(enclosing, global), with the parameters declared by
\* DeclareLocal
NewLocalScope(global, locals) ==
    [global |-> global, context |-> VoidContext, locals |-> locals,
     conflicted |-> FALSE]

\* LocalScope.HasModule
HasModule(sc, name) == name \in KnownModules

\* LocalScope.FixContext: joins the context into the one of the scope; false
\* when they conflict
FixContext(sc, ctx) ==
    IF sc.conflicted THEN [ok |-> FALSE, scope |-> sc]
    ELSE IF ctx = VoidContext THEN [ok |-> TRUE, scope |-> sc]
    ELSE IF sc.context = VoidContext
    THEN [ok |-> TRUE, scope |-> [sc EXCEPT !.context = ctx]]
    ELSE IF sc.context = ctx THEN [ok |-> TRUE, scope |-> sc]
    ELSE [ok |-> FALSE, scope |-> [sc EXCEPT !.conflicted = TRUE]]

\* LocalScope.Bind of a symbol the module does not declare: a parameter
BindLocal(sc, expr) == expr.module = <<>> /\ ParameterName \in sc.locals

\* a variant that permits a qualified access in every scope
finaliseVariableAnyScope(sc, expr, node) ==
    IF expr.module # <<>> /\ ~HasModule(sc, expr.module[1])
    THEN [scope |-> sc, errors |-> <<SyntaxError(node, "unknown module")>>]
    ELSE IF expr.kind = "column"
    THEN LET f == FixContext(sc, expr.context)
         IN [scope |-> f.scope,
             errors |-> IF f.ok THEN <<>>
                        ELSE <<SyntaxError(node, "conflicting context")>>]
    ELSE IF expr.kind # "unresolved"
    THEN [scope |-> sc, errors |-> <<SyntaxError(node, "not a column")>>]
    ELSE [scope |-> sc,
          errors |-> IF BindLocal(sc, expr) THEN <<>>
                     ELSE <<SyntaxError(node, "unresolved symbol")>>]

\* resolver.finaliseVariableInModule: the scope afterwards and the errors
finaliseVariableInModule(sc, expr, node) ==
    IF ~sc.global /\ expr.module # <<>>
    THEN [scope |-> sc,
          errors |-> <<SyntaxError(node, "qualified access not permitted here")>>]
    ELSE IF expr.module # <<>> /\ ~HasModule(sc, expr.module[1])
    THEN [scope |-> sc, errors |-> <<SyntaxError(node, "unknown module")>>]
    ELSE IF expr.kind # "unresolved"
    THEN IF expr.kind = "column"
         THEN LET f == FixContext(sc, expr.context)
              IN [scope |-> f.scope,
                  errors |-> IF f.ok THEN <<>>
                             ELSE <<SyntaxError(node, "conflicting context")>>]
         ELSE [scope |-> sc, errors |-> <<SyntaxError(node, "not a column")>>]
    ELSE IF BindLocal(sc, expr)
    THEN [scope |-> sc, errors |-> <<>>]
    ELSE [scope |-> sc, errors |-> <<SyntaxError(node, "unresolved symbol")>>]

\* resolver.finaliseExpressionsInModule over the accesses of an expression
\* from index i; part names the expression within the declaration
RECURSIVE finaliseExpressionsLoop(_, _, _, _, _)
finaliseExpressionsLoop(sc, args, part, i, errs) ==
    IF i > Len(args) THEN [scope |-> sc, errors |-> errs]
    ELSE LET r == finaliseVariableInModule(sc, args[i], <<part, i>>)
         IN finaliseExpressionsLoop(r.scope, args, part, i + 1, errs \o r.errors)

\* resolver.finaliseExpressionInModule on an expression, given as the
\* variable accesses in it from left to right
finaliseExpressionInModule(sc, args, part) ==
    finaliseExpressionsLoop(sc, args, part, 1, <<>>)

\* an expression of a declaration: its name, its accesses and the index of
\* the local scope it is finalised in
Part(name, args, sc) == [name |-> name, args |-> args, scope |-> sc]

\* resolver.finaliseDefConstraintInModule: guard (<<>> when nil), then body
finaliseDefConstraintInModule(guard, body) ==
    LET sc == NewLocalScope(FALSE, {})
        g == IF guard # <<>> THEN finaliseExpressionInModule(sc, guard, "guard")
             ELSE [scope |-> sc, errors |-> <<>>]
        b == finaliseExpressionInModule(g.scope, body, "body")
    IN [scopes |-> <<b.scope>>, errors |-> g.errors \o b.errors]

\* resolver.finaliseDefInRangeInModule
finaliseDefInRangeInModule(expr) ==
    LET r == finaliseExpressionInModule(NewLocalScope(FALSE, {}), expr, "body")
    IN [scopes |-> <<r.scope>>, errors |-> r.errors]

\* resolver.finaliseDefFunInModule
finaliseDefFunInModule(params, body) ==
    LET r == finaliseExpressionInModule(NewLocalScope(FALSE, params), body, "body")
    IN [scopes |-> <<r.scope>>, errors |-> r.errors]

\* resolver.finaliseDefLookupInModule
finaliseDefLookupInModule(sources, targets) ==
    LET sourceScope == NewLocalScope(TRUE, {})
        targetScope == NewLocalScope(TRUE, {})
        s == finaliseExpressionInModule(sourceScope, sources, "sources")
        t == finaliseExpressionInModule(targetScope, targets, "targets")
    IN [scopes |-> <<s.scope, t.scope>>, errors |-> s.errors \o t.errors]

\* resolver.finaliseDefPropertyInModule
finaliseDefPropertyInModule(assertion) ==
    LET r == finaliseExpressionInModule(NewLocalScope(FALSE, {}), assertion, "body")
    IN [scopes |-> <<r.scope>>, errors |-> r.errors]

\* the contexts sub-expressions report: (module, multiplier, no conflict)
SubContext(mid, m, ok) == [mid |-> mid, multiplier |-> m, ok |-> ok]

SubContexts ==
    { SubContext(0, 1, TRUE), SubContext(1, 1, TRUE), SubContext(0, 2, TRUE),
      SubContext(MaxUint, 1, TRUE), SubContext(MaxUint, 2, TRUE),
      SubContext(0, 0, FALSE) }

\* the loop of JoinContexts over the sub-expressions from index i
RECURSIVE JoinContextsLoop(_, _, _, _)
JoinContextsLoop(args, i, mid, multiplier) ==
    IF i > Len(args) THEN SubContext(mid, multiplier, TRUE)
    ELSE IF ~args[i].ok THEN SubContext(0, 0, FALSE)
    ELSE IF mid = MaxUint
    THEN JoinContextsLoop(args, i + 1, args[i].mid, args[i].multiplier)
    ELSE IF args[i].mid # MaxUint /\
            (args[i].mid # mid \/ args[i].multiplier # multiplier)
    THEN SubContext(0, 0, FALSE)
    ELSE JoinContextsLoop(args, i + 1, mid, multiplier)

\* a variant that compares the modules only
RECURSIVE JoinModulesLoop(_, _, _, _)
JoinModulesLoop(args, i, mid, multiplier) ==
    IF i > Len(args) THEN SubContext(mid, multiplier, TRUE)
    ELSE IF ~args[i].ok THEN SubContext(0, 0, FALSE)
    ELSE IF mid = MaxUint
    THEN JoinModulesLoop(args, i + 1, args[i].mid, args[i].multiplier)
    ELSE IF args[i].mid # MaxUint /\ args[i].mid # mid
    THEN SubContext(0, 0, FALSE)
    ELSE JoinModulesLoop(args, i + 1, mid, multiplier)

JoinModules(args) == JoinModulesLoop(args, 1, MaxUint, 1)

\* schema.JoinContexts(args, schema)
JoinContexts(args) == JoinContextsLoop(args, 1, MaxUint, 1)

\* the expressions of declarations: lists of variable accesses
Exprs == SeqsUpTo(AccessPool, MaxAccesses)

ExprInit ==
    /\ edecl = <<>>
    /\ escopes = <<>>
    /\ eerrors = <<>>
    /\ jargs = <<>>
    /\ jresult = <<>>
    /\ dresult = <<>>
    /\ epc = "ready"

\* finaliseDeclaration on a defconstraint
FinaliseDefConstraint ==
    /\ epc = "ready"
    /\ \E guard \in {<<>>} \cup { <<a>> : a \in AccessPool }, body \in Exprs :
         LET r == finaliseDefConstraintInModule(guard, body)
         IN /\ edecl' = [kind |-> "defconstraint", parts |-> <<Part("guard", guard, 1), Part("body", body, 1)>>,
                         params |-> {}]
            /\ escopes' = r.scopes
            /\ eerrors' = r.errors
    /\ epc' = "defconstraint"
    /\ UNCHANGED <<jargs, jresult, dresult, checkVars, resVars, finVars,
                   schVars, cmdVars, ifVars, mirVars>>

\* finaliseDeclaration on a definrange
FinaliseDefInRange ==
    /\ epc = "ready"
    /\ \E expr \in Exprs :
         LET r == finaliseDefInRangeInModule(expr)
         IN /\ edecl' = [kind |-> "definrange", parts |-> <<Part("body", expr, 1)>>,
                         params |-> {}]
            /\ escopes' = r.scopes
            /\ eerrors' = r.errors
    /\ epc' = "definrange"
    /\ UNCHANGED <<jargs, jresult, dresult, checkVars, resVars, finVars,
                   schVars, cmdVars, ifVars, mirVars>>

\* finaliseDeclaration on a defun
FinaliseDefFun ==
    /\ epc = "ready"
    /\ \E params \in {{}, {ParameterName}}, body \in Exprs :
         LET r == finaliseDefFunInModule(params, body)
         IN /\ edecl' = [kind |-> "defun", parts |-> <<Part("body", body, 1)>>,
                         params |-> params]
            /\ escopes' = r.scopes
            /\ eerrors' = r.errors
    /\ epc' = "defun"
    /\ UNCHANGED <<jargs, jresult, dresult, checkVars, resVars, finVars,
                   schVars, cmdVars, ifVars, mirVars>>

\* finaliseDeclaration on a deflookup
FinaliseDefLookup ==
    /\ epc = "ready"
    /\ \E sources \in Exprs, targets \in Exprs :
         LET r == finaliseDefLookupInModule(sources, targets)
         IN /\ edecl' = [kind |-> "deflookup", parts |-> <<Part("sources", sources, 1),
                                     Part("targets", targets, 2)>>,
                         params |-> {}]
            /\ escopes' = r.scopes
            /\ eerrors' = r.errors
    /\ epc' = "deflookup"
    /\ UNCHANGED <<jargs, jresult, dresult, checkVars, resVars, finVars,
                   schVars, cmdVars, ifVars, mirVars>>

\* finaliseDeclaration on a defproperty
FinaliseDefProperty ==
    /\ epc = "ready"
    /\ \E assertion \in Exprs :
         LET r == finaliseDefPropertyInModule(assertion)
         IN /\ edecl' = [kind |-> "defproperty", parts |-> <<Part("body", assertion, 1)>>,
                         params |-> {}]
            /\ escopes' = r.scopes
            /\ eerrors' = r.errors
    /\ epc' = "defproperty"
    /\ UNCHANGED <<jargs, jresult, dresult, checkVars, resVars, finVars,
                   schVars, cmdVars, ifVars, mirVars>>

\* the context of an expression from those of its sub-expressions
JoinSubExpressions ==
    /\ epc = "ready"
    /\ \E args \in SeqsUpTo(SubContexts, MaxJoinArgs) :
         /\ jargs' = args
         /\ jresult' = JoinContexts(args)
    /\ epc' = "joined"
    /\ UNCHANGED <<edecl, escopes, eerrors, dresult, checkVars, resVars, finVars,
                   schVars, cmdVars, ifVars, mirVars>>

\* the errors of DetermineEnclosingModuleOfExpressions; <<>> is nil
ConflictingModules == <<"conflicting enclosing modules">>
ConflictingMultipliers == <<"conflicting length multipliers">>

\* the loop of DetermineEnclosingModuleOfExpressions over the expressions
\* after the first; i counts from 1 as the source's, exprs[i] is args[i + 1]
RECURSIVE DetermineLoop(_, _, _, _)
DetermineLoop(args, i, mid, multiplier) ==
    IF i >= Len(args)
    THEN [mid |-> mid, multiplier |-> multiplier, err |-> <<>>]
    ELSE IF ~args[i + 1].ok
    THEN [mid |-> i, multiplier |-> 0, err |-> ConflictingModules]
    ELSE IF mid = MaxUint
    THEN DetermineLoop(args, i + 1, args[i + 1].mid, multiplier)
    ELSE IF args[i + 1].mid # MaxUint /\ args[i + 1].mid # mid
    THEN [mid |-> i, multiplier |-> 0, err |-> ConflictingModules]
    ELSE IF args[i + 1].mid # MaxUint /\ args[i + 1].multiplier # multiplier
    THEN [mid |-> i, multiplier |-> 0, err |-> ConflictingMultipliers]
    ELSE DetermineLoop(args, i + 1, mid, multiplier)

\* schema.DetermineEnclosingModuleOfExpressions(exprs, schema), on a list that
\* is not empty
DetermineEnclosingModuleOfExpressions(args) ==
    IF ~args[1].ok
    THEN [mid |-> 0, multiplier |-> 0, err |-> ConflictingModules]
    ELSE DetermineLoop(args, 1, args[1].mid, args[1].multiplier)

\* the enclosing module of the expressions of a constraint
DetermineEnclosingModule ==
    /\ epc = "ready"
    /\ \E args \in SeqsUpTo(SubContexts, MaxJoinArgs) :
         /\ jargs' = args
         /\ dresult' = DetermineEnclosingModuleOfExpressions(args)
    /\ epc' = "determined"
    /\ UNCHANGED <<edecl, escopes, eerrors, jresult, checkVars, resVars,
                   finVars, schVars, cmdVars, ifVars, mirVars>>

ExprNext ==
    \/ FinaliseDefConstraint
    \/ FinaliseDefInRange
    \/ FinaliseDefFun
    \/ FinaliseDefLookup
    \/ FinaliseDefProperty
    \/ JoinSubExpressions
    \/ DetermineEnclosingModule

\* ------------------------------------------ building and expanding schemas
\* Largest number of modules, of input columns and of assignments of a schema,
\* and of output columns of an assignment.
MaxModules == 1

MaxInputs == 2

MaxAssignments == 2

MaxOutputs == 2

ColumnNames == {"X", "Y"}

\* the columns of the declarations from index i on, flattened
RECURSIVE FlattenInputs(_, _)
FlattenInputs(inputs, i) ==
    IF i > Len(inputs) THEN <<>>
    ELSE <<[kind |-> "input", decl |-> i, output |-> 1]>>
         \o FlattenInputs(inputs, i + 1)

RECURSIVE FlattenAssignments(_, _)
FlattenAssignments(assignments, k) ==
    IF k > Len(assignments) THEN <<>>
    ELSE [j \in 1..assignments[k].outputs |->
             [kind |-> "computed", decl |-> k, output |-> j]]
         \o FlattenAssignments(assignments, k + 1)

\* Schema.Columns(): the columns of the inputs, then those of the assignments
Columns(p) == FlattenInputs(p.inputs, 1) \o FlattenAssignments(p.assignments, 1)

\* a variant that carries on after an error and returns the first one
RECURSIVE ExpandTraceAll(_, _, _)
ExpandTraceAll(assignments, i, run) ==
    IF i > Len(assignments) THEN [run |-> run, err |-> <<>>]
    ELSE LET r == ExpandTraceAll(assignments, i + 1, Append(run, i))
         IN IF assignments[i].fails
            THEN [run |-> r.run, err |-> <<i>>]
            ELSE r

\* the loop of ExpandTrace over the assignments from index i; an assignment
\* whose ExpandTrace fails returns the error <<i>>; <<>> is nil
RECURSIVE ExpandTraceLoop(_, _, _)
ExpandTraceLoop(assignments, i, run) ==
    IF i > Len(assignments) THEN [run |-> run, err |-> <<>>]
    ELSE IF assignments[i].fails
    THEN [run |-> Append(run, i), err |-> <<i>>]
    ELSE ExpandTraceLoop(assignments, i + 1, Append(run, i))

\* EmptySchema()
SchemaInit ==
    /\ hsch = [modules |-> <<>>, inputs |-> <<>>, assignments |-> <<>>]
    /\ ret = <<>>
    /\ lastAdd = <<>>
    /\ xrun = <<>>
    /\ xerr = <<>>
    /\ atrace = <<>>
    /\ aresult = <<>>
    /\ spc = "build"

\* Schema.AddModule(name)
AddModule ==
    /\ spc = "build"
    /\ Len(hsch.modules) < MaxModules
    /\ hsch' = [hsch EXCEPT !.modules = Append(@, Len(hsch.modules))]
    /\ UNCHANGED <<ret, lastAdd, xrun, xerr, atrace, aresult, spc, checkVars,
                   resVars, finVars, exprVars, cmdVars, ifVars, mirVars>>

\* Schema.AddDataColumn(context, name, base): panics on a module index that is
\* not one of the schema, appends the column otherwise
AddDataColumn ==
    /\ spc = "build"
    /\ Len(hsch.inputs) < MaxInputs
    /\ \E module \in 0..MaxModules, name \in ColumnNames :
         IF module >= Len(hsch.modules)
         THEN /\ lastAdd' = <<[module |-> module, name |-> name,
                               before |-> hsch.inputs, result |-> "panic"]>>
              /\ spc' = "panicked"
              /\ UNCHANGED hsch
         ELSE /\ hsch' = [hsch EXCEPT !.inputs =
                            Append(@, [module |-> module, name |-> name])]
              /\ lastAdd' = <<[module |-> module, name |-> name,
                               before |-> hsch.inputs,
                               result |-> Len(hsch.inputs)]>>
              /\ UNCHANGED spc
    /\ UNCHANGED <<ret, xrun, xerr, atrace, aresult, checkVars, resVars,
                   finVars, exprVars, cmdVars, ifVars, mirVars>>

\* Schema.AddAssignment(c): returns the number of columns there are so far
AddAssignment ==
    /\ spc = "build"
    /\ Len(hsch.assignments) < MaxAssignments
    /\ \E outputs \in 1..MaxOutputs, fails \in BOOLEAN :
         hsch' = [hsch EXCEPT !.assignments =
                    Append(@, [outputs |-> outputs, fails |-> fails])]
    /\ ret' = Append(ret, [index |-> Len(Columns(hsch)),
                           inputs |-> Len(hsch.inputs)])
    /\ UNCHANGED <<lastAdd, xrun, xerr, atrace, aresult, spc, checkVars,
                   resVars, finVars, exprVars, cmdVars, ifVars, mirVars>>

\* schema.ExpandTrace(schema, trace)
ExpandTrace ==
    /\ spc = "build"
    /\ LET r == ExpandTraceLoop(hsch.assignments, 1, <<>>)
       IN /\ xrun' = r.run
          /\ xerr' = r.err
    /\ spc' = "expanded"
    /\ UNCHANGED <<hsch, ret, lastAdd, atrace, aresult, checkVars, resVars,
                   finVars, exprVars, cmdVars, ifVars, mirVars>>

\* ------------------------------------------------------ the check command
\* The schemas checked hold the input column X, or X and U, of one module and
\* one vanishing constraint on X; a trace holds the names of its columns in
\* their order and the cells of X (no constraint reads another column).
\* Largest --padding given to the command.
MaxPadding == 1

SchemaColumns == { <<"X">>, <<"X", "U">> }

TraceColumns == { <<"X">>, <<"X", "U">>, <<"U", "X">>, <<"U">> }

CmdDomains == { NoDomain, <<0>>, <<0 - 1>> }

\* checkConfig, as Run fills it from the flags: strict = !warn, expand = !raw,
\* padding.Left = padding.Right = padding; spillage is left at its default.
Configs ==
    [hir : BOOLEAN, mir : BOOLEAN, air : BOOLEAN, strict : BOOLEAN,
     expand : BOOLEAN, padding : 0..MaxPadding]

\* an error made by fmt.Errorf
Errorf(msg, column) == [kind |-> "error", msg |-> msg, column |-> column]

\* trace.PadColumns(tr, n): n rows in front of every column, holding the
\* padding value of the column
PadColumns(tr, n) ==
    [tr EXCEPT !.data = [i \in 1..n |-> tr.padding] \o @]

\* tr.Columns().Trim(n)
Trim(tr, n) == [tr EXCEPT !.cols = SubSeq(@, 1, n)]

\* columns.Swap(i, k), on the names
Swap(cols, i, k) == [cols EXCEPT ![i] = cols[k], ![k] = cols[i]]

\* sc.RequiredSpillage(schema): the maximum of 1 and of the spillage of each
\* assignment
RECURSIVE RequiredSpillageLoop(_, _, _)
RequiredSpillageLoop(assignments, i, mx) ==
    IF i > Len(assignments) THEN mx
    ELSE RequiredSpillageLoop(assignments, i + 1,
                              Max(mx, assignments[i].spillage))

RequiredSpillage(sch) == RequiredSpillageLoop(sch.assignments, 1, 1)

\* hir.Schema.LowerToMir: a constraint on a list becomes one constraint per
\* element, each under the handle and the domain of the list
RECURSIVE LowerConstraintsToMir(_, _)
LowerConstraintsToMir(cs, i) ==
    IF i > Len(cs) THEN <<>>
    ELSE [j \in 1..Len(cs[i].body) |->
            [handle |-> cs[i].handle, domain |-> cs[i].domain,
             body |-> <<cs[i].body[j]>>]]
         \o LowerConstraintsToMir(cs, i + 1)

LowerToMir(sch) ==
    [sch EXCEPT !.level = "MIR",
                !.constraints = LowerConstraintsToMir(sch.constraints, 1)]

\* mir.Schema.LowerToAir: a constraint on a column access is kept as it is
LowerToAir(sch) ==
    [sch EXCEPT !.level = "AIR",
                !.constraints = [i \in 1..Len(sch.constraints) |->
                                   sch.constraints[i]]]

\* the loop of alignWith over the columns of the schema; colIndex counts from 0
RECURSIVE alignColumns(_, _, _)
alignColumns(schemaCols, colIndex, cols) ==
    IF colIndex >= Len(schemaCols)
    THEN [cols |-> cols, colIndex |-> colIndex, err |-> NoFailure]
    ELSE LET name == schemaCols[colIndex + 1]
         IN IF colIndex >= Len(cols)
            THEN [cols |-> cols, colIndex |-> colIndex,
                  err |-> Errorf("trace missing column (too few columns)", name)]
            ELSE IF cols[colIndex + 1] # name
            THEN IF ~ \E k \in 1..Len(cols) : cols[k] = name
                 THEN [cols |-> cols, colIndex |-> colIndex,
                       err |-> Errorf("trace missing column", name)]
                 ELSE LET k == CHOOSE k \in 1..Len(cols) : cols[k] = name
                      IN alignColumns(schemaCols, colIndex + 1,
                                      Swap(cols, colIndex + 1, k))
            ELSE alignColumns(schemaCols, colIndex + 1, cols)

\* the end of alignWith: all the columns of the trace were matched, or those
\* left over are unknown
alignWithEnd(p, ncols, a) ==
    IF a.err # NoFailure THEN [trace |-> [p EXCEPT !.cols = a.cols], err |-> a.err]
    ELSE IF a.colIndex = ncols
    THEN [trace |-> [p EXCEPT !.cols = a.cols], err |-> NoFailure]
    ELSE [trace |-> [p EXCEPT !.cols = a.cols],
          err |-> Errorf("trace contains unknown columns",
                         SubSeq(a.cols, a.colIndex + 1, ncols))]

\* the columns alignWith goes through: those of every declaration under
\* expand, those of the declarations that are not computed otherwise
DeclaredColumns(expand, sch) ==
    IF expand THEN sch.columns \o sch.computed ELSE sch.columns

\* alignWith(expand, p, schema): the trace as the call leaves it, and the
\* error returned. The modules of the trace are those of the schema, in the
\* same order.
alignWith(expand, p, sch) ==
    alignWithEnd(p, Len(p.cols),
                 alignColumns(DeclaredColumns(expand, sch), 0, p.cols))

\* the sanity check of performAlignment on the error err of the alignment a
performAlignmentCheck(a, nSchemaCols, nTraceCols, c) ==
    IF a.err # NoFailure THEN a
    ELSE IF c.strict /\ nSchemaCols # nTraceCols
    THEN [trace |-> a.trace,
          err |-> Errorf("unknown trace column", a.trace.cols[nSchemaCols + 1])]
    ELSE IF nSchemaCols # nTraceCols
    THEN [trace |-> Trim(a.trace, nSchemaCols), err |-> NoFailure]
    ELSE a

\* performAlignment(inputs, tr, schema, cfg)
performAlignment(inputs, tr, sch, c) ==
    performAlignmentCheck(IF inputs THEN alignWith(FALSE, tr, sch)
                          ELSE alignWith(TRUE, tr, sch),
                          IF inputs THEN Len(sch.columns)
                          ELSE Len(sch.columns) + Len(sch.computed),
                          Len(tr.cols), c)

\* padAndCheckTrace(n, tr, schema). The clone padded under n != 0 is bound to
\* a ptr declared inside the if block; the ptr given to Accepts and returned
\* is the one declared before the block, which is tr.
padAndCheckTrace(n, tr, sch) ==
    LET ptr == tr
        inner == IF n # 0 THEN PadColumns(tr, n) ELSE tr
    IN [ptr |-> ptr, err |-> Accepts(sch, ptr).failure, given |-> <<ptr>>,
        padded |-> inner]

\* What checkTrace returns: the trace (<<>> for nil) and the error, with the
\* trace Accepts was called on if it was, and the trace as the steps left it.
\* checkTracePadded is the loop over the paddings, which are the one of the flag.
checkTracePadded(tr, p) ==
    IF p.err # NoFailure
    THEN [ptr |-> <<p.ptr>>, err |-> p.err, given |-> p.given, left |-> tr]
    ELSE [ptr |-> <<>>, err |-> NoFailure, given |-> p.given, left |-> tr]

\* checkTrace from the alignment a of all the columns
checkTraceAligned(sch, c, a) ==
    IF a.err # NoFailure
    THEN [ptr |-> <<a.trace>>, err |-> a.err, given |-> <<>>, left |-> a.trace]
    ELSE checkTracePadded(a.trace, padAndCheckTrace(c.padding, a.trace, sch))

\* checkTrace under expand, from the alignment a of the input columns
checkTraceExpanded(sch, c, a) ==
    IF a.err # NoFailure
    THEN [ptr |-> <<a.trace>>, err |-> a.err, given |-> <<>>, left |-> a.trace]
    ELSE IF ExpandTraceLoop(sch.assignments, 1, <<>>).err # <<>>
    THEN [ptr |-> <<a.trace>>,
          err |-> Errorf("expansion",
                         ExpandTraceLoop(sch.assignments, 1, <<>>).err),
          given |-> <<>>, left |-> a.trace]
    ELSE checkTraceAligned(sch, c, performAlignment(FALSE, a.trace, sch, c))

\* checkTrace(tr, schema, cfg)
checkTrace(tr, sch, c) ==
    IF c.expand
    THEN checkTraceExpanded(sch, c,
             performAlignment(TRUE, PadColumns(tr, RequiredSpillage(sch)),
                              sch, c))
    ELSE checkTraceAligned(sch, c, performAlignment(FALSE, tr, sch, c))

\* the trace of the caller after checkTrace returned r: under expand the call
\* worked on a clone
Caller(tr, c, r) == IF c.expand THEN tr ELSE r.left

\* err.Error(): the text of an error, as the sequence of its parts
ErrorText(err) ==
    IF err.kind = "VanishingFailure"
    THEN <<"constraint", err.handle, "does not hold (row", err.row, ")">>
    ELSE <<err.msg, err.column>>

\* toErrorString(err)
toErrorString(err) == IF err = NoFailure THEN <<>> ELSE ErrorText(err)

\* the line fmt.Println(err) prints
Println(err) == IF err = NoFailure THEN <<"<nil>">> ELSE ErrorText(err)

\* the line reportError(ir, tr, err, cfg) prints
reportError(ir, err) ==
    IF err # NoFailure THEN <<ir, ": ">> \o ErrorText(err)
    ELSE <<"Trace should have been rejected at", ir, "level.">>

\* one entry of the history of the calls of checkTrace
Checked(ir, r) == [level |-> ir, given |-> r.given, err |-> r.err]

\* the end of checkTraceWithLoweringDefault, from what checkTrace returned at
\* the three levels
compareLevels(rHIR, rMIR, rAIR) ==
    IF rHIR.err # NoFailure \/ rMIR.err # NoFailure \/ rAIR.err # NoFailure
    THEN IF toErrorString(rHIR.err) = toErrorString(rMIR.err)
            /\ toErrorString(rMIR.err) = toErrorString(rAIR.err)
         THEN [checks |-> <<Checked("HIR", rHIR), Checked("MIR", rMIR),
                            Checked("AIR", rAIR)>>,
               out |-> <<Println(rHIR.err)>>, exit |-> 1]
         ELSE [checks |-> <<Checked("HIR", rHIR), Checked("MIR", rMIR),
                            Checked("AIR", rAIR)>>,
               out |-> <<reportError("HIR", rHIR.err),
                         reportError("MIR", rMIR.err),
                         reportError("AIR", rAIR.err)>>,
               exit |-> 1]
    ELSE [checks |-> <<Checked("HIR", rHIR), Checked("MIR", rMIR),
                       Checked("AIR", rAIR)>>,
          out |-> <<>>, exit |-> 0]

\* checkTraceWithLoweringDefault after the check at HIR and MIR
checkDefaultAir(tr, mirSchema, c, rHIR, rMIR) ==
    compareLevels(rHIR, rMIR, checkTrace(tr, LowerToAir(mirSchema), c))

\* checkTraceWithLoweringDefault after the check at HIR
checkDefaultMir(tr, mirSchema, c, rHIR) ==
    checkDefaultAir(Caller(tr, c, checkTrace(tr, mirSchema, c)), mirSchema, c,
                    rHIR, checkTrace(tr, mirSchema, c))

\* checkTraceWithLoweringDefault(tr, hirSchema, cfg)
checkTraceWithLoweringDefault(tr, hirSchema, c) ==
    checkDefaultMir(Caller(tr, c, checkTrace(tr, hirSchema, c)),
                    LowerToMir(hirSchema), c, checkTrace(tr, hirSchema, c))

\* the schema of a level
SchemaAt(ir, hirSchema) ==
    IF ir = "HIR" THEN hirSchema
    ELSE IF ir = "MIR" THEN LowerToMir(hirSchema)
    ELSE LowerToAir(LowerToMir(hirSchema))

\* the end of checkTraceWithLoweringHir, -Mir and -Air: on an error, the
\* error is reported and the process exits with 1
reportAt(ir, tr, c, r) ==
    [checks |-> <<Checked(ir, r)>>,
     out |-> IF r.err # NoFailure THEN <<reportError(ir, r.err)>> ELSE <<>>,
     exit |-> IF r.err # NoFailure THEN 1 ELSE 0,
     caller |-> Caller(tr, c, r)]

\* checkTraceWithLoweringHir, -Mir and -Air
checkTraceWithLoweringAt(ir, tr, hirSchema, c) ==
    reportAt(ir, tr, c, checkTrace(tr, SchemaAt(ir, hirSchema), c))

\* what the levels checked after r add to it
thenChecked(r, rest) ==
    [checks |-> r.checks \o rest.checks, out |-> r.out \o rest.out,
     exit |-> rest.exit]

\* the individual branch of checkTraceWithLowering: the levels whose flag is
\* set, in the order HIR, MIR, AIR, until one exits
RECURSIVE checkIndividually(_, _, _, _, _)
RECURSIVE checkNextLevel(_, _, _, _, _)
checkNextLevel(levels, i, hirSchema, c, r) ==
    IF r.exit # 0 THEN [checks |-> r.checks, out |-> r.out, exit |-> r.exit]
    ELSE thenChecked(r, checkIndividually(levels, i + 1, r.caller, hirSchema, c))

checkIndividually(levels, i, tr, hirSchema, c) ==
    IF i > Len(levels) THEN [checks |-> <<>>, out |-> <<>>, exit |-> 0]
    ELSE checkNextLevel(levels, i, hirSchema, c,
                        checkTraceWithLoweringAt(levels[i], tr, hirSchema, c))

\* the levels whose flag is set
SelectedLevels(c) ==
    (IF c.hir THEN <<"HIR">> ELSE <<>>) \o
    (IF c.mir THEN <<"MIR">> ELSE <<>>) \o
    (IF c.air THEN <<"AIR">> ELSE <<>>)

\* the traces a trace file can hold
CmdTraces ==
    { [cols |-> cs, data |-> d, padding |-> 0] :
        cs \in TraceColumns,
        d \in UNION { [1..h -> FieldValues] : h \in 0..MaxHeight } }

\* the HIR schemas a constraint file can hold
CmdSchemas ==
    { [level |-> "HIR", columns |-> cs, computed |-> <<>>,
       assignments |-> <<>>,
       assertions |-> <<>>,
       constraints |-> <<[handle |-> "c", domain |-> dom, body |-> expr]>>] :
        cs \in SchemaColumns, dom \in CmdDomains, expr \in Bodies }

\* readTraceFile and readSchemaFile: the trace and the HIR schema of the run
CmdInit ==
    /\ ctrace \in CmdTraces
    /\ cschema \in CmdSchemas
    /\ cfg = <<>>
    /\ checks = <<>>
    /\ out = <<>>
    /\ exitCode = 0
    /\ kpc = "ready"

\* checkTraceWithLowering with none of --hir, --mir, --air
CheckDefault ==
    /\ kpc = "ready"
    /\ \E c \in Configs :
         /\ ~ c.hir /\ ~ c.mir /\ ~ c.air
         /\ LET r == checkTraceWithLoweringDefault(ctrace, cschema, c)
            IN /\ cfg' = c
               /\ checks' = r.checks
               /\ out' = r.out
               /\ exitCode' = r.exit
    /\ kpc' = "exited"
    /\ UNCHANGED <<ctrace, cschema, checkVars, resVars, finVars, exprVars,
                   schVars, ifVars, mirVars>>

\* checkTraceWithLowering with some of --hir, --mir, --air
CheckIndividually ==
    /\ kpc = "ready"
    /\ \E c \in Configs :
         /\ c.hir \/ c.mir \/ c.air
         /\ LET r == checkIndividually(SelectedLevels(c), 1, ctrace, cschema, c)
            IN /\ cfg' = c
               /\ checks' = r.checks
               /\ out' = r.out
               /\ exitCode' = r.exit
    /\ kpc' = "exited"
    /\ UNCHANGED <<ctrace, cschema, checkVars, resVars, finVars, exprVars,
                   schVars, ifVars, mirVars>>

CmdNext == CheckDefault \/ CheckIndividually

\* ------------------------------------------------- aligning with a schema
\* Largest number of columns of a trace given to the alignment.
MaxTraceCols == 2

\* the names of the output columns of the assignments
OutputNames ==
    << <<"P1", "P2", "P3">>, <<"Q1", "Q2", "Q3">>, <<"R1", "R2", "R3">> >>

\* a column of a trace or of a schema, as the alignment compares them: by the
\* name of the module and the name of the column
ColumnKey(module, name) == [module |-> module, name |-> name]

\* the columns of the assignments from index k on, which are in module 0
RECURSIVE ComputedColumns(_, _)
ComputedColumns(assignments, k) ==
    IF k > Len(assignments) THEN <<>>
    ELSE [j \in 1..assignments[k].outputs |-> ColumnKey(0, OutputNames[k][j])]
         \o ComputedColumns(assignments, k + 1)

\* Schema.Declarations() of an hir.Schema, by the columns of each declaration:
\* the inputs, which are not computed, then the assignments, which are
SchemaDeclarations(p) ==
    [columns |-> [i \in 1..Len(p.inputs) |->
                     ColumnKey(p.inputs[i].module, p.inputs[i].name)],
     computed |-> ComputedColumns(p.assignments, 1)]

\* the columns of the traces given to a schema p: a trace has the modules of
\* the schema, and its columns are in them
TraceKeys(p) ==
    { ColumnKey(m, n) : m \in 0..(Len(p.modules) - 1),
                        n \in ColumnNames \cup {OutputNames[1][1]} }

AlignedTraces(p) == {<<>>} \cup SeqsUpTo(TraceKeys(p), MaxTraceCols)

\* sc.Align(trace, schema) and sc.AlignInputs(trace, schema)
Align ==
    /\ spc = "build"
    /\ \E expand \in BOOLEAN, cols \in AlignedTraces(hsch) :
         /\ atrace' = cols
         /\ aresult' = [expand |-> expand,
                        trace |-> alignWith(expand, [cols |-> cols],
                                            SchemaDeclarations(hsch)).trace,
                        err |-> alignWith(expand, [cols |-> cols],
                                          SchemaDeclarations(hsch)).err]
    /\ spc' = "aligned"
    /\ UNCHANGED <<hsch, ret, lastAdd, xrun, xerr, checkVars, resVars, finVars,
                   exprVars, cmdVars, ifVars, mirVars>>

SchemaNext ==
    AddModule \/ AddDataColumn \/ AddAssignment \/ ExpandTrace \/ Align

\* ------------------------------------------------------------ conditionals
\* The values of a column are elements of the field; the model takes the
\* field of this order.
FieldModulus == 5

FieldElements == 0..(FieldModulus - 1)

\* expressions: a column access on the row, a constant, and the operators
ColumnAccess(name) == [op |-> "column", column |-> name]
Constant(v) == [op |-> "const", value |-> v]
Nil == [op |-> "nil"]
IfZero(condition, trueBranch, falseBranch) ==
    [op |-> "ifzero", condition |-> condition, trueBranch |-> trueBranch,
     falseBranch |-> falseBranch]
Normalise(arg) == [op |-> "norm", arg |-> arg]
Add(l, r) == [op |-> "add", l |-> l, r |-> r]
Sub(l, r) == [op |-> "sub", l |-> l, r |-> r]
Mul(l, r) == [op |-> "mul", l |-> l, r |-> r]

\* the branch of an IfZero, a missing one counting as the constant 0
Branch(e) == IF e = Nil THEN Constant(0) ELSE e

\* MirNormalise.EvalAt, on the value of its argument
NormaliseEvalAt(v) == IF v = 0 THEN 0 ELSE 1

\* EvalAt of an expression on a row
RECURSIVE EvalAt(_, _)
EvalAt(e, row) ==
    IF e.op = "column" THEN row[e.column]
    ELSE IF e.op = "const" THEN e.value
    ELSE IF e.op = "norm" THEN NormaliseEvalAt(EvalAt(e.arg, row))
    ELSE IF e.op = "add"
    THEN (EvalAt(e.l, row) + EvalAt(e.r, row)) % FieldModulus
    ELSE IF e.op = "sub"
    THEN (EvalAt(e.l, row) + FieldModulus - EvalAt(e.r, row)) % FieldModulus
    ELSE IF e.op = "mul"
    THEN (EvalAt(e.l, row) * EvalAt(e.r, row)) % FieldModulus
    ELSE IF e.op = "ifzero"
    THEN IF EvalAt(e.condition, row) = 0
         THEN EvalAt(Branch(e.trueBranch), row)
         ELSE EvalAt(Branch(e.falseBranch), row)
    ELSE 0

\* the lowering of IfZero(c, t, e): (1 - Normalise(c)) * t + Normalise(c) * e
LowerIfZero(e) ==
    Add(Mul(Sub(Constant(1), Normalise(e.condition)), Branch(e.trueBranch)),
        Mul(Normalise(e.condition), Branch(e.falseBranch)))

\* sexpIfNot with the argument taken as the true branch
sexpIfNotAsIf(args) ==
    IF Len(args) = 2
    THEN [expr |-> IfZero(args[1], args[2], Nil), err |-> <<>>]
    ELSE [expr |-> Nil, err |-> <<"incorrect number of arguments", Len(args)>>]

\* sexpIf(args)
sexpIf(args) ==
    IF Len(args) = 2
    THEN [expr |-> IfZero(args[1], args[2], Nil), err |-> <<>>]
    ELSE IF Len(args) = 3
    THEN [expr |-> IfZero(args[1], args[2], args[3]), err |-> <<>>]
    ELSE [expr |-> Nil, err |-> <<"incorrect number of arguments", Len(args)>>]

\* sexpIfNot(args)
sexpIfNot(args) ==
    IF Len(args) = 2
    THEN [expr |-> IfZero(args[1], Nil, args[2]), err |-> <<>>]
    ELSE [expr |-> Nil, err |-> <<"incorrect number of arguments", Len(args)>>]

\* the arguments of a form, already translated: accesses of the columns C, T, E
FormArgs ==
    { <<ColumnAccess("C")>>,
      <<ColumnAccess("C"), ColumnAccess("T")>>,
      <<ColumnAccess("C"), ColumnAccess("E")>>,
      <<ColumnAccess("C"), ColumnAccess("T"), ColumnAccess("E")>> }

Rows == [{"C", "T", "E"} -> FieldElements]

IfInit ==
    /\ iargs = <<>>
    /\ irow = <<>>
    /\ ibuilt = <<>>
    /\ ierr = <<>>
    /\ hval = 0
    /\ mval = 0
    /\ ipc = "ready"

\* what a translated form leaves: the expression, and its value and the value
\* of its lowering on a row
Translated(form, args, row, r) ==
    /\ iargs' = args
    /\ irow' = row
    /\ ibuilt' = r.expr
    /\ ierr' = r.err
    /\ hval' = IF r.err = <<>> THEN EvalAt(r.expr, row) ELSE 0
    /\ mval' = IF r.err = <<>> THEN EvalAt(LowerIfZero(r.expr), row) ELSE 0
    /\ ipc' = form

\* the translation of (if c t) and (if c t e), evaluated on a row
TranslateIf ==
    /\ ipc = "ready"
    /\ \E args \in FormArgs, row \in Rows :
         Translated("if", args, row, sexpIf(args))
    /\ UNCHANGED <<checkVars, resVars, finVars, exprVars, schVars, cmdVars,
                   mirVars>>

\* the translation of (ifnot c e), evaluated on a row
TranslateIfNot ==
    /\ ipc = "ready"
    /\ \E args \in FormArgs, row \in Rows :
         Translated("ifnot", args, row, sexpIfNot(args))
    /\ UNCHANGED <<checkVars, resVars, finVars, exprVars, schVars, cmdVars,
                   mirVars>>

IfNext == TranslateIf \/ TranslateIfNot

\* ------------------------------------------------------ MIR expressions
\* Largest constant of an expression.
MaxConst == 2
\* Largest power of an Exp.
MaxPow == 2

\* MIR expressions with argument lists
MirAdd(args) == [op |-> "add", args |-> args]
MirSub(args) == [op |-> "sub", args |-> args]
MirMul(args) == [op |-> "mul", args |-> args]
MirExp(arg, pow) == [op |-> "exp", arg |-> arg, pow |-> pow]
MirNormalise(arg) == [op |-> "norm", arg |-> arg]

IsConstant(e) == e.op = "const"

\* util.Pow(val, pow)
RECURSIVE Pow(_, _)
Pow(v, n) == IF n = 0 THEN 1 ELSE (v * Pow(v, n - 1)) % FieldModulus

\* the value of an MIR expression when the column has the value v
RECURSIVE MirEvalAt(_, _)
RECURSIVE MirEvalArgs(_, _, _, _, _)
MirEvalArgs(op, args, i, acc, v) ==
    IF i > Len(args) THEN acc
    ELSE LET a == MirEvalAt(args[i], v)
         IN MirEvalArgs(op, args, i + 1,
                IF i = 1 THEN a
                ELSE IF op = "add" THEN (acc + a) % FieldModulus
                ELSE IF op = "sub" THEN (acc + FieldModulus - a) % FieldModulus
                ELSE (acc * a) % FieldModulus, v)

MirEvalAt(e, v) ==
    IF e.op = "const" THEN e.value
    ELSE IF e.op = "column" THEN v
    ELSE IF e.op = "norm" THEN NormaliseEvalAt(MirEvalAt(e.arg, v))
    ELSE IF e.op = "exp" THEN Pow(MirEvalAt(e.arg, v), e.pow)
    ELSE MirEvalArgs(e.op, e.args, 1, 0, v)

\* the loop of applyConstantPropagationAdd over the folded arguments rs; sum
\* is <<>> for nil and <<value>> otherwise
RECURSIVE PropagationAddLoop(_, _, _)
PropagationAddLoop(rs, i, sum) ==
    IF i > Len(rs) THEN sum
    ELSE PropagationAddLoop(rs, i + 1,
             IF IsConstant(rs[i]) /\ sum # <<>>
             THEN <<(sum[1] + rs[i].value) % FieldModulus>>
             ELSE <<>>)

\* applyConstantPropagationAdd, from the folded arguments
applyConstantPropagationAdd(rs) ==
    IF PropagationAddLoop(rs, 1, <<0>>) # <<>>
    THEN Constant(PropagationAddLoop(rs, 1, <<0>>)[1])
    ELSE MirAdd(rs)

\* the loop of applyConstantPropagationSub with the sum started at zero and
\* every argument subtracted from it
RECURSIVE PropagationSubFromZero(_, _, _)
PropagationSubFromZero(rs, i, sum) ==
    IF i > Len(rs) THEN sum
    ELSE PropagationSubFromZero(rs, i + 1,
             IF IsConstant(rs[i]) /\ sum # <<>>
             THEN <<(sum[1] + FieldModulus - rs[i].value) % FieldModulus>>
             ELSE <<>>)

\* applyConstantPropagationSub with that loop
applyConstantPropagationSubFromZero(rs) ==
    IF PropagationSubFromZero(rs, 1, <<0>>) # <<>>
    THEN Constant(PropagationSubFromZero(rs, 1, <<0>>)[1])
    ELSE MirSub(rs)

\* the loop of applyConstantPropagationSub over the folded arguments rs
RECURSIVE PropagationSubLoop(_, _, _)
PropagationSubLoop(rs, i, sum) ==
    IF i > Len(rs) THEN sum
    ELSE PropagationSubLoop(rs, i + 1,
             IF IsConstant(rs[i]) /\ i = 1 THEN <<rs[i].value>>
             ELSE IF IsConstant(rs[i]) /\ sum # <<>>
             THEN <<(sum[1] + FieldModulus - rs[i].value) % FieldModulus>>
             ELSE <<>>)

\* applyConstantPropagationSub, from the folded arguments
applyConstantPropagationSub(rs) ==
    IF PropagationSubLoop(rs, 1, <<>>) # <<>>
    THEN Constant(PropagationSubLoop(rs, 1, <<>>)[1])
    ELSE MirSub(rs)

\* the loop of applyConstantPropagationMul over the folded arguments rs: the
\* result is the zero constant as soon as an argument is one
RECURSIVE PropagationMulLoop(_, _, _)
PropagationMulLoop(rs, i, prod) ==
    IF i > Len(rs)
    THEN IF prod # <<>> THEN Constant(prod[1]) ELSE MirMul(rs)
    ELSE IF IsConstant(rs[i]) /\ rs[i].value = 0 THEN Constant(rs[i].value)
    ELSE PropagationMulLoop(rs, i + 1,
             IF IsConstant(rs[i]) /\ prod # <<>>
             THEN <<(prod[1] * rs[i].value) % FieldModulus>>
             ELSE <<>>)

\* applyConstantPropagationMul, from the folded arguments
applyConstantPropagationMul(rs) == PropagationMulLoop(rs, 1, <<1>>)

\* applyConstantPropagationExp, from the folded argument
applyConstantPropagationExp(arg, pow) ==
    IF IsConstant(arg) THEN Constant(Pow(arg.value, pow)) ELSE MirExp(arg, pow)

\* applyConstantPropagationNorm, from the folded argument
applyConstantPropagationNorm(arg) ==
    IF IsConstant(arg) THEN Constant(IF arg.value # 0 THEN 1 ELSE arg.value)
    ELSE MirNormalise(arg)

\* applyConstantPropagation(e)
RECURSIVE applyConstantPropagation(_)
applyConstantPropagation(e) ==
    IF e.op = "add"
    THEN applyConstantPropagationAdd(
             [i \in 1..Len(e.args) |-> applyConstantPropagation(e.args[i])])
    ELSE IF e.op = "const" THEN e
    ELSE IF e.op = "column" THEN e
    ELSE IF e.op = "mul"
    THEN applyConstantPropagationMul(
             [i \in 1..Len(e.args) |-> applyConstantPropagation(e.args[i])])
    ELSE IF e.op = "exp"
    THEN applyConstantPropagationExp(applyConstantPropagation(e.arg), e.pow)
    ELSE IF e.op = "norm"
    THEN applyConstantPropagationNorm(applyConstantPropagation(e.arg))
    ELSE applyConstantPropagationSub(
             [i \in 1..Len(e.args) |-> applyConstantPropagation(e.args[i])])

\* MirExpr.LowerToAir: MirAdd lowers its arguments, MirConstant is kept, and
\* MirNormalise panics; a panic of an argument is the panic of the whole
RECURSIVE MirLowerToAir(_)
MirLowerToAir(e) ==
    IF e.op = "add"
    THEN LET nargs == [i \in 1..Len(e.args) |-> MirLowerToAir(e.args[i])]
         IN IF \E i \in 1..Len(nargs) : nargs[i].panic
            THEN [panic |-> TRUE, expr |-> Nil]
            ELSE [panic |-> FALSE,
                  expr |-> MirAdd([i \in 1..Len(nargs) |-> nargs[i].expr])]
    ELSE IF e.op = "norm" THEN [panic |-> TRUE, expr |-> Nil]
    ELSE [panic |-> FALSE, expr |-> e]

\* the expressions given: leaves, operators on leaves, and operators on those
MirLeaves == { Constant(c) : c \in 0..MaxConst } \cup { ColumnAccess("C") }

MirOver(S) ==
    { MirAdd(a) : a \in S \X S } \cup { MirSub(a) : a \in S \X S }
    \cup { MirMul(a) : a \in S \X S }
    \cup { MirExp(a, n) : a \in S, n \in 0..MaxPow }
    \cup { MirNormalise(a) : a \in S }

MirInner == MirLeaves \cup MirOver(MirLeaves)

MirExprs ==
    MirInner \cup MirOver(MirInner)
    \cup { MirSub(a) : a \in MirLeaves \X MirLeaves \X MirLeaves }
    \cup { MirAdd(a) : a \in MirLeaves \X MirLeaves \X MirLeaves }
    \cup { MirMul(a) : a \in MirLeaves \X MirLeaves \X MirLeaves }

\* the expressions of package ir: MirAdd, MirNormalise and MirConstant
RECURSIVE IsIrExpr(_)
IsIrExpr(e) ==
    IF e.op = "const" THEN TRUE
    ELSE IF e.op = "norm" THEN IsIrExpr(e.arg)
    ELSE IF e.op = "add" THEN \A i \in 1..Len(e.args) : IsIrExpr(e.args[i])
    ELSE FALSE

MirInit ==
    /\ mexpr = <<>>
    /\ mfolded = <<>>
    /\ mlowered = <<>>
    /\ mpc = "ready"

\* applyConstantPropagation of an expression
Propagate ==
    /\ mpc = "ready"
    /\ \E e \in MirExprs :
         /\ mexpr' = e
         /\ mfolded' = applyConstantPropagation(e)
    /\ mpc' = "folded"
    /\ UNCHANGED <<mlowered, checkVars, resVars, finVars, exprVars, schVars,
                   cmdVars, ifVars>>

\* LowerToAir of an expression of package ir
Lower ==
    /\ mpc = "ready"
    /\ \E e \in MirExprs :
         /\ IsIrExpr(e)
         /\ mexpr' = e
         /\ mlowered' = MirLowerToAir(e)
    /\ mpc' = "lowered"
    /\ UNCHANGED <<mfolded, checkVars, resVars, finVars, exprVars, schVars,
                   cmdVars, ifVars>>

MirNext == Propagate \/ Lower

\* --------------------------------------------------------- specifications
\* a component that takes no step
CheckIdle ==
    /\ trace = [data |-> <<>>, padding |-> 0]
    /\ schema = [constraints |-> <<>>, assertions |-> <<>>]
    /\ runs = <<>>
    /\ verdict = NoFailure
    /\ cpc = "idle"

ResolveIdle ==
    /\ decls = <<>>
    /\ scope = [n \in Names |-> Unbound]
    /\ rpc = "idle"
    /\ idx = 0
    /\ changed = TRUE
    /\ complete = FALSE
    /\ counter = IterationCap
    /\ incomplete = 0
    /\ errors = <<>>
    /\ result = <<>>
    /\ returned = "none"
    /\ npass = 0
    /\ log = <<>>
    /\ finalAtStart = {}
    /\ stuckAt = 0

FinaliseIdle ==
    /\ fsources = <<>>
    /\ ftargets = <<>>
    /\ ferrors = <<>>
    /\ fpc = "idle"

ExprIdle ==
    /\ edecl = <<>>
    /\ escopes = <<>>
    /\ eerrors = <<>>
    /\ jargs = <<>>
    /\ jresult = <<>>
    /\ dresult = <<>>
    /\ epc = "idle"

SchemaIdle ==
    /\ hsch = [modules |-> <<>>, inputs |-> <<>>, assignments |-> <<>>]
    /\ ret = <<>>
    /\ lastAdd = <<>>
    /\ xrun = <<>>
    /\ xerr = <<>>
    /\ atrace = <<>>
    /\ aresult = <<>>
    /\ spc = "idle"

CmdIdle ==
    /\ cfg = <<>>
    /\ ctrace = <<>>
    /\ cschema = <<>>
    /\ checks = <<>>
    /\ out = <<>>
    /\ exitCode = 0
    /\ kpc = "idle"

IfIdle ==
    /\ iargs = <<>>
    /\ irow = <<>>
    /\ ibuilt = <<>>
    /\ ierr = <<>>
    /\ hval = 0
    /\ mval = 0
    /\ ipc = "idle"

MirIdle ==
    /\ mexpr = <<>>
    /\ mfolded = <<>>
    /\ mlowered = <<>>
    /\ mpc = "idle"

ExtIdle == ExprIdle /\ SchemaIdle /\ CmdIdle /\ IfIdle /\ MirIdle

NextCheck == AddVanishingConstraint \/ AddPropertyAssertion \/ CheckTrace

\* checking a trace against a schema
InitCheck == CheckInit /\ ResolveIdle /\ FinaliseIdle /\ ExtIdle

SpecCheck == InitCheck /\ [][NextCheck]_vars

\* resolving the declarations of a module
InitResolve == CheckIdle /\ ResolveInit /\ FinaliseIdle /\ ExtIdle

SpecResolve == InitResolve /\ [][ResolveNext]_vars

\* the resolver runs to its return: a step that can be taken is taken
SpecResolveFair == InitResolve /\ [][ResolveNext]_vars /\ WF_vars(ResolveNext)

\* finalising one interleaving or permutation
InitFinalise == CheckIdle /\ ResolveIdle /\ FinaliseInit /\ ExtIdle

SpecFinalise == InitFinalise /\ [][FinaliseNext]_vars

\* finalising the expressions of one declaration
InitExpr ==
    CheckIdle /\ ResolveIdle /\ FinaliseIdle /\ ExprInit /\ SchemaIdle /\ CmdIdle /\ IfIdle
    /\ MirIdle

SpecExpr == InitExpr /\ [][ExprNext]_vars

\* building a schema and expanding a trace with it
InitSchema ==
    CheckIdle /\ ResolveIdle /\ FinaliseIdle /\ ExprIdle /\ SchemaInit /\ CmdIdle /\ IfIdle
    /\ MirIdle

SpecSchema == InitSchema /\ [][SchemaNext]_vars

InitCmd ==
    CheckIdle /\ ResolveIdle /\ FinaliseIdle /\ ExprIdle /\ SchemaIdle /\ CmdInit /\ IfIdle
    /\ MirIdle

SpecCmd == InitCmd /\ [][CmdNext]_vars

InitIf ==
    CheckIdle /\ ResolveIdle /\ FinaliseIdle /\ ExprIdle /\ SchemaIdle /\ CmdIdle /\ IfInit
    /\ MirIdle

SpecIf == InitIf /\ [][IfNext]_vars

InitMir ==
    CheckIdle /\ ResolveIdle /\ FinaliseIdle /\ ExprIdle /\ SchemaIdle /\ CmdIdle
    /\ IfIdle /\ MirInit

SpecMir == InitMir /\ [][MirNext]_vars

\* ------------------------------------------------- claims on the checker
ShiftsOf(body) == { body[j] : j \in 1..Len(body) }

\* the shift window [start, end] of a body
WindowStart(body) ==
    CHOOSE s \in 0..MaxShift :
        /\ \A x \in ShiftsOf(body) : 0 - x <= s
        /\ s = 0 \/ \E x \in ShiftsOf(body) : 0 - x = s

WindowEnd(body) ==
    CHOOSE e \in 0..MaxShift :
        /\ \A x \in ShiftsOf(body) : x <= e
        /\ e = 0 \/ \E x \in ShiftsOf(body) : x = e

\* the rows lo, lo + 1, ..., hi in ascending order
RowsFromTo(lo, hi) == [i \in 1..(hi - lo + 1) |-> lo + i - 1]

MinOf(S) == CHOOSE x \in S : \A y \in S : x <= y

\* the cell read by an access to the given row: outside the module it is the
\* padding value
CellAt(r) == IF r \in 0..(Len(trace.data) - 1) THEN trace.data[r + 1]
             ELSE trace.padding

BodyNonZeroAt(body, r) == \E x \in ShiftsOf(body) : CellAt(r + x) # 0

GlobalRuns == { i \in 1..Len(runs) : runs[i].constraint.domain = NoDomain }

LocalRuns == { i \in 1..Len(runs) : runs[i].constraint.domain # NoDomain }

\* C1: a global vanishing constraint with shift window [start, end] on a module
\* of height h tests the rows start <= r < h - end in ascending order (up to
\* the first failing one), fails iff the body is non-zero on one of them, names
\* the lowest such row, and tests no row and accepts when end >= h.
C1_GlobalRows ==
    \A i \in GlobalRuns :
        LET body == runs[i].constraint.body
            h == Len(trace.data)
            start == WindowStart(body)
            end == WindowEnd(body)
            rows == { r \in 0..(h - 1) : start <= r /\ r < h - end }
            bad == { r \in rows : BodyNonZeroAt(body, r) }
        IN /\ runs[i].tested =
                IF rows = {} THEN <<>>
                ELSE RowsFromTo(start, IF bad = {} THEN h - end - 1 ELSE MinOf(bad))
           /\ (runs[i].failure # NoFailure) <=> (bad # {})
           /\ bad # {} => runs[i].failure.row = MinOf(bad)
           /\ end >= h => runs[i].tested = <<>> /\ runs[i].failure = NoFailure

\* a global constraint that reads the next row fails on the second row tested
C1_Witness ==
    \E i \in GlobalRuns :
        /\ WindowEnd(runs[i].constraint.body) > 0
        /\ Len(runs[i].tested) >= 2
        /\ runs[i].failure # NoFailure

\* C2: a vanishing constraint is never reported as failing on a row where one
\* of its column accesses falls outside the rows of the module.
C2_NoFailureOutsideModule ==
    \A i \in 1..Len(runs) :
        runs[i].failure # NoFailure =>
            \A x \in ShiftsOf(runs[i].constraint.body) :
                ToInt(runs[i].failure.row) + x \in 0..(Len(trace.data) - 1)

\* C2 for global constraints only: the rows a global constraint tests have
\* every access inside the module.
C2_GlobalInsideModule ==
    \A i \in GlobalRuns :
        \A k \in 1..Len(runs[i].tested) :
            \A x \in ShiftsOf(runs[i].constraint.body) :
                runs[i].tested[k] + x \in 0..(Len(trace.data) - 1)

C4_AssertionsNotEnforced ==
    cpc = "checked" =>
        /\ verdict = AcceptsLoop(schema.constraints, 1, trace, <<>>).failure
        /\ \A i \in 1..Len(runs) : runs[i].constraint.handle # "a"

\* the trace is accepted although an asserted expression is non-zero on a row
C4_Witness ==
    /\ cpc = "checked"
    /\ verdict = NoFailure
    /\ schema.constraints # <<>>
    /\ \E a \in 1..Len(schema.assertions) :
         \E r \in 0..(Len(trace.data) - 1) :
            /\ schema.assertions[a].body = <<0>>
            /\ trace.data[r + 1] # 0

\* ------------------------------------------------ claims on the resolver
\* the declarations passed to finaliseDeclaration without error so far
FinalisedWithoutError ==
    { d \in 1..Len(decls) :
        \E k \in 1..Len(log) : log[k].decl = d /\ log[k].nerrors = 0 }

\* C5: when a pass finalises no declaration that was not finalised already
\* while some declaration is not ready, the loop stops after that pass and the
\* resolver reports `cyclic declaration` on a declaration that is not finalised.
C5_NoProgressIsCyclic ==
    stuckAt # 0 =>
        /\ npass = stuckAt
        /\ rpc = "done"
        /\ Len(result) = 1
        /\ result[1].msg = "cyclic declaration"
        /\ result[1].node \in 1..Len(decls)
        /\ ~DeclIsFinalised(scope, decls[result[1].node])

\* C5 where it holds: a pass in which no declaration at all was ready
C5_NothingReadyIsCyclic ==
    (stuckAt # 0 /\ \A k \in 1..Len(log) : log[k].pass # stuckAt) =>
        /\ npass = stuckAt
        /\ rpc = "done"
        /\ Len(result) = 1
        /\ result[1].msg = "cyclic declaration"
        /\ result[1].node \in 1..Len(decls)
        /\ ~DeclIsFinalised(scope, decls[result[1].node])

\* C6: if every declaration is ready and finalised without error by the end
\* of one of the first four passes, finaliseDeclarationsInModule returns no
\* error.
C6_CompleteWithinFourPasses ==
    ( /\ rpc = "done"
      /\ npass \in 1..IterationCap
      /\ FinalisedWithoutError = 1..Len(decls)
      /\ \A k \in 1..Len(log) : log[k].nerrors = 0 )
    => result = <<>>

\* C6 for the first three passes, where it holds
C6_CompleteWithinThreePasses ==
    ( /\ rpc = "done"
      /\ npass \in 1..(IterationCap - 1)
      /\ FinalisedWithoutError = 1..Len(decls)
      /\ \A k \in 1..Len(log) : log[k].nerrors = 0 )
    => result = <<>>

\* C7: a declaration is passed to finaliseDeclaration only at a moment when
\* every dependency symbol is bound to a finalised binding, and at most once
\* in a pass.
C7_FinalisedOnlyWhenReady ==
    /\ \A k \in 1..Len(log) : log[k].unready = {}
    /\ \A k \in 1..Len(log) : \A j \in 1..Len(log) :
         (log[k].decl = log[j].decl /\ log[k].pass = log[j].pass) => k = j
    /\ \A d \in 1..Len(decls) :
         (rpc = "visit" /\ d < idx /\ Len(errors) = 0 /\
          \E i \in 1..Len(decls[d].sources) :
              ~IsFinalised(scope[decls[d].sources[i]]))
         => \A k \in 1..Len(log) : ~(log[k].decl = d /\ log[k].pass = npass)

\* an interleaving that had to wait for its source is finalised in pass 2
C7_Witness ==
    \E k \in 1..Len(log) :
        /\ log[k].pass = 2
        /\ decls[log[k].decl].kind = "definterleaved"
        /\ \A j \in 1..Len(log) : log[j].decl = log[k].decl => log[j].pass >= 2

\* the definitions of the module: declaration d, its i-th definition
DefinitionSites ==
    UNION { { <<d, i>> : i \in 1..Len(decls[d].targets) } :
            d \in 1..Len(decls) }

DefinedNames == { decls[x[1]].targets[x[2]].name : x \in DefinitionSites }

\* C8: when two definitions of the module have the same name, resolution
\* fails with one `already declared` error for each repeated definition, the
\* finalise phase is not run and ResolveCircuit returns no scope.
C8_DuplicatesRejected ==
    (rpc # "initialise" /\
     Cardinality(DefinitionSites) > Cardinality(DefinedNames)) =>
        /\ rpc = "done"
        /\ Len(result) = Cardinality(DefinitionSites) - Cardinality(DefinedNames)
        /\ \A k \in 1..Len(result) : result[k].msg = "already declared"
        /\ npass = 0
        /\ log = <<>>
        /\ returned = "nil"

\* a module with two repeated definitions
C8_Witness ==
    /\ rpc = "done"
    /\ Len(result) = 2
    /\ result[1].msg = "already declared"
    /\ result[2].msg = "already declared"
    /\ returned = "nil"

\* ------------------------------------- claims on finalising a declaration
\* the order of types: every fixed-width type is below the wider ones and
\* below the field type
TypeLeq(a, b) ==
    \/ b.kind = "field"
    \/ a.kind = "uint" /\ b.kind = "uint" /\ a.width <= b.width

SameMultiplier == \A i \in 1..Len(fsources) :
                      fsources[i].multiplier = fsources[1].multiplier

\* C9: an interleaving of k sources with the same multiplier m gets the
\* multiplier m * k and the join of the source types; a source whose multiplier
\* differs from the first one's is reported and the interleaving not accepted.
C9_Interleaved ==
    fpc = "interleaved" =>
        /\ SameMultiplier =>
             /\ ferrors = <<>>
             /\ ftargets[1].multiplier = fsources[1].multiplier * Len(fsources)
             /\ \A i \in 1..Len(fsources) :
                    TypeLeq(fsources[i].dataType, ftargets[1].dataType)
             /\ \A t \in DataTypes :
                    (\A i \in 1..Len(fsources) : TypeLeq(fsources[i].dataType, t))
                    => TypeLeq(ftargets[1].dataType, t)
        /\ ~SameMultiplier =>
             /\ Len(ferrors) =
                  Cardinality({ i \in 1..Len(fsources) :
                                  fsources[i].multiplier # fsources[1].multiplier })
             /\ \A i \in 1..Len(fsources) :
                    fsources[i].multiplier # fsources[1].multiplier =>
                    \E k \in 1..Len(ferrors) : ferrors[k].node = i
             /\ ~IsFinalised(ftargets[1])

\* three sources of multiplier 2 and of different types
C9_Witness ==
    /\ fpc = "interleaved"
    /\ Len(fsources) = 3
    /\ SameMultiplier
    /\ fsources[1].dataType # fsources[2].dataType
    /\ ftargets[1].multiplier = 6
    /\ ftargets[1].dataType = UintType(16)

\* C10: finalising a permutation reports `fixed-width type required` for
\* every source whose type is not a fixed-width unsigned integer, whatever its
\* position; a permutation with such a source is never accepted.
C10_FixedWidthSources ==
    fpc = "permuted" =>
        \A i \in 1..Len(fsources) :
            ~AsUint(fsources[i].dataType) =>
                /\ ferrors # <<>>
                /\ \E k \in 1..Len(ferrors) :
                     /\ ferrors[k].node = i
                     /\ ferrors[k].msg = "fixed-width type required"

\* C10 for the first source, where it holds
C10_FirstSourceFixedWidth ==
    (fpc = "permuted" /\ ~AsUint(fsources[1].dataType)) =>
        \E k \in 1..Len(ferrors) :
            /\ ferrors[k].node = 1
            /\ ferrors[k].msg = "fixed-width type required"

\* ------------------------------- claims on the expressions of declarations
ExprKinds == {"defconstraint", "definrange", "defun", "deflookup", "defproperty"}

\* the variable accesses of the declaration: <<index of the part, index in it>>
AccessSites ==
    UNION { { <<p, i>> : i \in 1..Len(edecl.parts[p].args) } :
            p \in 1..Len(edecl.parts) }

AccessAt(a) == edecl.parts[a[1]].args[a[2]]

\* an error with this message is reported on the access
HasError(a, msg) ==
    \E k \in 1..Len(eerrors) :
        /\ eerrors[k].node = <<edecl.parts[a[1]].name, a[2]>>
        /\ eerrors[k].msg = msg

\* some error is reported on the access
HasAnyError(a) ==
    \E k \in 1..Len(eerrors) :
        eerrors[k].node = <<edecl.parts[a[1]].name, a[2]>>

\* the accesses of columns in the expressions finalised in local scope k
\* that are not rejected for their qualification
ColumnSites(k) ==
    { a \in AccessSites :
        /\ edecl.parts[a[1]].scope = k
        /\ AccessAt(a).kind = "column"
        /\ \/ AccessAt(a).module = <<>>
           \/ edecl.kind = "deflookup" /\ AccessAt(a).module[1] \in KnownModules }

Before(a, b) == a[1] < b[1] \/ (a[1] = b[1] /\ a[2] < b[2])

\* C11: a qualified access in a constraint (guard or body), a range
\* constraint, a property or a function body is rejected with `qualified access
\* not permitted here`; in the sources or targets of a lookup it is not, and
\* the two sides of a lookup have separate scopes: each side fixes its own
\* context.
C11_QualifiedAccess ==
    epc \in ExprKinds =>
        /\ \A a \in AccessSites :
             AccessAt(a).module # <<>> =>
                 IF edecl.kind = "deflookup"
                 THEN /\ ~HasError(a, "qualified access not permitted here")
                      /\ (AccessAt(a).module[1] \in KnownModules /\
                          AccessAt(a).kind = "column" /\
                          \A b \in ColumnSites(edecl.parts[a[1]].scope) :
                              AccessAt(b).context = AccessAt(a).context)
                         => ~HasAnyError(a)
                 ELSE HasError(a, "qualified access not permitted here")
        /\ edecl.kind = "deflookup" =>
             /\ Len(escopes) = 2
             /\ \A k \in 1..2 :
                  (\A a \in ColumnSites(k) : \A b \in ColumnSites(k) :
                       AccessAt(a).context = AccessAt(b).context)
                  => /\ \A a \in ColumnSites(k) :
                          /\ ~HasAnyError(a)
                          /\ escopes[k].context = AccessAt(a).context
                     /\ ColumnSites(k) = {} => escopes[k].context = VoidContext

\* a lookup with qualified accesses on both sides, in different contexts
C11_Witness ==
    /\ epc = "deflookup"
    /\ edecl.parts[1].args = <<VariableAccess(<<"m1">>, "column", Context(0, 1))>>
    /\ edecl.parts[2].args = <<VariableAccess(<<"m1">>, "column", Context(1, 1)),
                               VariableAccess(<<>>, "column", Context(1, 1))>>
    /\ eerrors = <<>>
    /\ escopes[1].context = Context(0, 1)
    /\ escopes[2].context = Context(1, 1)

\* the sub-expressions given to JoinContexts that have a context
DefinedArgs == { i \in 1..Len(jargs) : jargs[i].ok /\ jargs[i].mid # MaxUint }

\* C12: JoinContexts reports a conflict exactly when a sub-expression reports
\* one or two sub-expressions have contexts that differ in module or in
\* multiplier; sub-expressions without a context are ignored and otherwise the
\* common (module, multiplier) is returned; during resolution a column access
\* whose context differs from the one fixed for its scope is rejected with
\* `conflicting context`.
C12_Contexts ==
    /\ epc = "joined" =>
         /\ jresult.ok =
              ~( \/ \E i \in 1..Len(jargs) : ~jargs[i].ok
                 \/ \E i \in DefinedArgs : \E j \in DefinedArgs :
                       \/ jargs[i].mid # jargs[j].mid
                       \/ jargs[i].multiplier # jargs[j].multiplier )
         /\ jresult.ok =>
              /\ \A i \in DefinedArgs :
                   /\ jresult.mid = jargs[i].mid
                   /\ jresult.multiplier = jargs[i].multiplier
              /\ DefinedArgs = {} => jresult.mid = MaxUint
    /\ epc \in ExprKinds =>
         \A k \in 1..Len(escopes) :
             /\ \A a \in ColumnSites(k) :
                  (\E b \in ColumnSites(k) :
                       /\ \A c \in ColumnSites(k) : b = c \/ Before(b, c)
                       /\ AccessAt(b).context # AccessAt(a).context)
                  => HasError(a, "conflicting context")
             /\ (\A a \in ColumnSites(k) : \A b \in ColumnSites(k) :
                     AccessAt(a).context = AccessAt(b).context)
                => \A a \in AccessSites : 
                       edecl.parts[a[1]].scope = k =>
                           ~HasError(a, "conflicting context")

\* a sub-expression without a context is ignored, the other two agree
C12_Witness ==
    /\ epc = "joined"
    /\ jargs = <<SubContext(MaxUint, 2, TRUE), SubContext(0, 1, TRUE),
                 SubContext(0, 1, TRUE)>>
    /\ jresult = SubContext(0, 1, TRUE)

\* a guard and a body of one constraint in different contexts
C12_ConflictInConstraint ==
    /\ epc = "defconstraint"
    /\ edecl.parts[1].args = <<VariableAccess(<<>>, "column", Context(0, 1))>>
    /\ edecl.parts[2].args = <<VariableAccess(<<>>, "column", Context(0, 2))>>
    /\ eerrors = <<SyntaxError(<<"body", 1>>, "conflicting context")>>

\* -------------------------------------------------- claims on the schemas
\* the inputs of the schema that are in the same module under the same name
SameColumn(a, b) == a.module = b.module /\ a.name = b.name

\* C13: AddDataColumn fails and adds no column when the module index is not
\* one of the schema or a column of that name is already in the module; no two
\* columns of a module ever have the same name.
C13_AddDataColumnFails ==
    /\ \A i \in 1..Len(hsch.inputs) : \A j \in 1..Len(hsch.inputs) :
         SameColumn(hsch.inputs[i], hsch.inputs[j]) => i = j
    /\ lastAdd # <<>> =>
         ( ( \/ lastAdd[1].module >= Len(hsch.modules)
             \/ \E i \in 1..Len(lastAdd[1].before) :
                    SameColumn(lastAdd[1].before[i], lastAdd[1]) )
           => /\ lastAdd[1].result = "panic"
              /\ hsch.inputs = lastAdd[1].before )

\* C13 for the module index alone, where it holds
C13_ModuleIndexChecked ==
    /\ \A i \in 1..Len(hsch.inputs) : hsch.inputs[i].module < Len(hsch.modules)
    /\ lastAdd # <<>> =>
         ( lastAdd[1].module >= Len(hsch.modules)
           => /\ spc = "panicked"
              /\ hsch.inputs = lastAdd[1].before )

\* the number of output columns of the assignments before the k-th
RECURSIVE OutputsBefore(_)
OutputsBefore(k) ==
    IF k <= 1 THEN 0
    ELSE OutputsBefore(k - 1) + hsch.assignments[k - 1].outputs

\* the position in Columns(), from 0, of the first output of assignment k
FirstOutput(k) == Len(hsch.inputs) + OutputsBefore(k)

\* Columns() has the inputs first, then the outputs of each assignment
ColumnsInOrder ==
    /\ Len(Columns(hsch)) =
         Len(hsch.inputs) + OutputsBefore(Len(hsch.assignments) + 1)
    /\ \A i \in 1..Len(hsch.inputs) :
         Columns(hsch)[i] = [kind |-> "input", decl |-> i, output |-> 1]
    /\ \A k \in 1..Len(hsch.assignments) :
         \A j \in 1..hsch.assignments[k].outputs :
             Columns(hsch)[FirstOutput(k) + j] =
                 [kind |-> "computed", decl |-> k, output |-> j]

\* C14: Columns() lists the inputs in the order added, then the outputs of
\* each assignment in the order added, and the index AddAssignment returned is
\* the position of the first output of that assignment, its other outputs
\* following.
C14_ColumnIndices ==
    /\ ColumnsInOrder
    /\ Len(ret) = Len(hsch.assignments)
    /\ \A k \in 1..Len(ret) : ret[k].index = FirstOutput(k)

\* C14 while no input column is added after the assignment, where it holds
C14_IndexUntilNextInput ==
    /\ ColumnsInOrder
    /\ Len(ret) = Len(hsch.assignments)
    /\ \A k \in 1..Len(ret) :
         ret[k].inputs = Len(hsch.inputs) => ret[k].index = FirstOutput(k)

\* the assignments whose ExpandTrace fails
Failing == { i \in 1..Len(hsch.assignments) : hsch.assignments[i].fails }

\* C15: ExpandTrace runs the assignments in declaration order, one at a time,
\* and returns the first error without running a later assignment.
C15_ExpandInOrder ==
    spc = "expanded" =>
        IF Failing = {}
        THEN /\ xrun = [i \in 1..Len(hsch.assignments) |-> i]
             /\ xerr = <<>>
        ELSE /\ xrun = [i \in 1..MinOf(Failing) |-> i]
             /\ xerr = <<MinOf(Failing)>>

\* the first of two assignments fails: the second one is not run
C15_Witness ==
    /\ spc = "expanded"
    /\ Len(hsch.assignments) = 2
    /\ hsch.assignments[1].fails
    /\ xrun = <<1>>
    /\ xerr = <<1>>

\* ------------------------------------------- claims on the check command
\* the rows checkTrace puts in front of the trace before the final padding
SpillageOf(c) == IF c.expand THEN 1 ELSE 0

\* the calls of checkTrace that reached Accepts
Accepted == { i \in 1..Len(checks) : checks[i].given # <<>> }

\* C16: when the padding n of the command is greater than 0, Accepts is
\* called on the padded trace: the expanded trace with n more rows in front,
\* not the unpadded expanded trace.
C16_AcceptsOnPaddedTrace ==
    kpc = "exited" /\ cfg.padding > 0 =>
        \A i \in Accepted :
            Height(checks[i].given[1]) =
                Height(ctrace) + SpillageOf(cfg) + cfg.padding

\* What padAndCheckTrace does: whatever the padding, Accepts is called on the
\* expanded trace as the alignment left it.
C16_AcceptsOnUnpaddedTrace ==
    kpc = "exited" =>
        \A i \in Accepted :
            checks[i].given[1].data =
                [j \in 1..SpillageOf(cfg) |-> 0] \o ctrace.data

\* a run with padding whose verdict differs from the one on the padded trace
C16_PaddingChangesVerdict ==
    /\ kpc = "exited" /\ cfg.padding > 0 /\ cfg.hir /\ ~ cfg.mir /\ ~ cfg.air
    /\ Accepted # {}
    /\ exitCode = 0
    /\ Accepts(cschema, PadColumns(checks[1].given[1], cfg.padding)).failure
           # NoFailure

\* the names of the columns of a trace
NamesOf(tr) == { tr.cols[k] : k \in 1..Len(tr.cols) }

\* the trace holds every column of the schema and a column the schema has not
HasUnknownColumn ==
    /\ \A k \in 1..Len(cschema.columns) :
         cschema.columns[k] \in NamesOf(ctrace)
    /\ \E n \in NamesOf(ctrace) :
         \A k \in 1..Len(cschema.columns) : cschema.columns[k] # n

\* C17: a trace with a column the schema does not have fails the check in
\* strict mode; under --warn it does not fail for it: the unknown columns are
\* trimmed and each level goes on to check the trimmed trace.
C17_UnknownColumnWarned ==
    kpc = "exited" /\ HasUnknownColumn =>
        IF cfg.strict THEN exitCode = 1
        ELSE \A i \in 1..Len(checks) :
                /\ checks[i].given # <<>>
                /\ checks[i].given[1].cols = cschema.columns

\* The strict half: a trace with an unknown column fails the check.
C17_StrictFails ==
    kpc = "exited" /\ HasUnknownColumn /\ cfg.strict => exitCode = 1

\* What alignWith does: whatever the mode, the alignment returns the error
\* of the unknown columns, no level reaches Accepts and the command fails.
C17_UnknownColumnAlwaysFails ==
    kpc = "exited" /\ HasUnknownColumn =>
        /\ exitCode = 1
        /\ \A i \in 1..Len(checks) :
              /\ checks[i].given = <<>>
              /\ checks[i].err = Errorf("trace contains unknown columns", <<"U">>)

\* a run under --warn on a trace with an unknown column
C17_WarnedRun ==
    kpc = "exited" /\ HasUnknownColumn /\ ~ cfg.strict /\ exitCode = 1

\* the levels checked had an error and their messages are the same
SameMessages ==
    /\ \E i \in 1..Len(checks) : checks[i].err # NoFailure
    /\ \A i, j \in 1..Len(checks) :
         toErrorString(checks[i].err) = toErrorString(checks[j].err)

\* C18: with --hir, --mir and --air together the trace is checked at the three
\* levels, each whatever the result of the others; the three messages are
\* compared and messages that are identical are reported once.
C18_AllLevelsCompared ==
    kpc = "exited" /\ cfg.hir /\ cfg.mir /\ cfg.air =>
        /\ Len(checks) = 3
        /\ SameMessages => out = <<ErrorText(checks[1].err)>>

\* What the default branch does, taken when none of the flags is given: the
\* three levels are checked, identical messages are printed once and others
\* are reported level by level.
C18_DefaultComparesLevels ==
    kpc = "exited" /\ ~ cfg.hir /\ ~ cfg.mir /\ ~ cfg.air =>
        /\ Len(checks) = 3
        /\ SameMessages => out = <<ErrorText(checks[1].err)>>
        /\ ~ SameMessages /\ exitCode = 1 => Len(out) = 3

\* What the individual branch does, taken when a flag is given: the levels
\* are checked in order until the first that fails, whose error is reported
\* under its level; the levels after it are not checked.
C18_IndividualStopsAtFailure ==
    kpc = "exited" /\ (cfg.hir \/ cfg.mir \/ cfg.air) =>
        /\ \A i \in 1..Len(checks) :
              /\ checks[i].level = SelectedLevels(cfg)[i]
              /\ i < Len(checks) => checks[i].err = NoFailure
        /\ exitCode = 0 => Len(checks) = Len(SelectedLevels(cfg)) /\ out = <<>>
        /\ exitCode = 1 =>
              /\ checks[Len(checks)].err # NoFailure
              /\ out = <<reportError(checks[Len(checks)].level,
                                     checks[Len(checks)].err)>>

\* a run with the three flags that stops after the failure at HIR
C18_StoppedAtHir ==
    /\ kpc = "exited" /\ cfg.hir /\ cfg.mir /\ cfg.air
    /\ Len(checks) = 1
    /\ checks[1].err.kind = "VanishingFailure"

\* a run of the default branch that printed one message for the three levels
C18_DefaultCollapsed ==
    /\ kpc = "exited" /\ ~ cfg.hir /\ ~ cfg.mir /\ ~ cfg.air
    /\ SameMessages /\ Len(out) = 1
    /\ checks[1].err.kind = "VanishingFailure"

\* the calls of checkTrace at a level
ChecksAt(ir) == { i \in 1..Len(checks) : checks[i].level = ir }

\* the trace was accepted at the level: it was checked there without error
AcceptedAt(ir) ==
    /\ ChecksAt(ir) # {}
    /\ \A i \in ChecksAt(ir) : checks[i].err = NoFailure

\* the trace was rejected at the level by a constraint
RejectedAt(ir) ==
    \E i \in ChecksAt(ir) : checks[i].err.kind = "VanishingFailure"

\* C19: lowering preserves acceptance: a trace accepted by the HIR schema is
\* accepted, after expansion, by the MIR schema lowered from it and by the AIR
\* schema lowered from that.
C19_LoweringPreservesAcceptance ==
    kpc = "exited" /\ AcceptedAt("HIR") =>
        /\ ChecksAt("MIR") # {} => AcceptedAt("MIR")
        /\ ChecksAt("AIR") # {} => AcceptedAt("AIR")

\* The step from MIR to AIR preserves acceptance and rejection.
C19_MirToAir ==
    kpc = "exited" /\ ChecksAt("MIR") # {} /\ ChecksAt("AIR") # {} =>
        (AcceptedAt("MIR") <=> AcceptedAt("AIR"))

\* The converse of the step from HIR to MIR: the constraints of a list test
\* at least the rows the list tests, so a trace accepted at MIR is accepted
\* at HIR.
C19_MirImpliesHir ==
    kpc = "exited" /\ ChecksAt("HIR") # {} /\ AcceptedAt("MIR") =>
        AcceptedAt("HIR")

\* A constraint on one column access is checked alike at the three levels.
C19_SingleAccessPreserved ==
    kpc = "exited" /\ Len(cschema.constraints[1].body) = 1
                   /\ AcceptedAt("HIR") =>
        /\ ChecksAt("MIR") # {} => AcceptedAt("MIR")
        /\ ChecksAt("AIR") # {} => AcceptedAt("AIR")

\* a trace accepted at HIR that a constraint of the lowered list rejects
C19_AcceptedThenRejected ==
    kpc = "exited" /\ AcceptedAt("HIR") /\ RejectedAt("MIR") /\ RejectedAt("AIR")

\* ------------------------------------------------- claims on conditionals
\* the value the row gives a branch, a missing branch counting as 0
BranchValue(e) == IF e = Nil THEN 0 ELSE EvalAt(e, irow)

\* C20: on every row IfZero(c, t, e) has the value of t when c is 0 and the
\* value of e otherwise, a missing branch counting as 0, and the lowered
\* expression (1 - Normalise(c)) * t + Normalise(c) * e has the same value; so
\* the constraint on (if c t) holds on a row exactly when c # 0 or t = 0, and
\* the one on (ifnot c e) exactly when c = 0 or e = 0.
C20_IfZeroSelects ==
    ipc \in {"if", "ifnot"} /\ ierr = <<>> =>
        /\ hval = IF irow["C"] = 0 THEN BranchValue(ibuilt.trueBranch)
                  ELSE BranchValue(ibuilt.falseBranch)
        /\ mval = hval
        /\ ipc = "if" /\ Len(iargs) = 2 =>
              /\ iargs[2] = ColumnAccess("T") =>
                    (hval = 0 <=> (irow["C"] # 0 \/ irow["T"] = 0))
              /\ iargs[2] = ColumnAccess("E") =>
                    (hval = 0 <=> (irow["C"] # 0 \/ irow["E"] = 0))
        /\ ipc = "if" /\ Len(iargs) = 3 =>
              hval = IF irow["C"] = 0 THEN irow["T"] ELSE irow["E"]
        /\ ipc = "ifnot" =>
              /\ iargs[2] = ColumnAccess("E") =>
                    (hval = 0 <=> (irow["C"] = 0 \/ irow["E"] = 0))
              /\ iargs[2] = ColumnAccess("T") =>
                    (hval = 0 <=> (irow["C"] = 0 \/ irow["T"] = 0))

\* (ifnot c e) on a row where c is not 0 and e is not 0: the constraint fails
C20_Witness ==
    /\ ipc = "ifnot" /\ ierr = <<>>
    /\ iargs = <<ColumnAccess("C"), ColumnAccess("E")>>
    /\ irow["C"] > 1 /\ irow["E"] # 0 /\ irow["T"] = 0
    /\ hval = irow["E"] /\ mval = irow["E"]

\* (if c t) on a row where c is 0 and t is not 0: the constraint fails
C20_IfConstrains ==
    /\ ipc = "if" /\ ierr = <<>>
    /\ iargs = <<ColumnAccess("C"), ColumnAccess("T")>>
    /\ irow["C"] = 0 /\ irow["T"] # 0 /\ hval = irow["T"] /\ mval = hval

\* --------------------------------------------- claims on MIR expressions
\* the expression holds a Normalise node
RECURSIVE HasNormalise(_)
HasNormalise(e) ==
    IF e.op = "norm" THEN TRUE
    ELSE IF e.op = "exp" THEN HasNormalise(e.arg)
    ELSE IF e.op \in {"add", "sub", "mul"}
    THEN \E i \in 1..Len(e.args) : HasNormalise(e.args[i])
    ELSE FALSE

\* C21: lowering an MIR expression to AIR succeeds for every MIR expression,
\* and its result holds no Normalise node.
C21_LowerToAirSucceeds ==
    mpc = "lowered" =>
        /\ ~ mlowered.panic
        /\ ~ HasNormalise(mlowered.expr)

\* What LowerToAir does: it panics exactly on the expressions that hold a
\* Normalise node, and returns the others as they are.
C21_NormalisePanics ==
    mpc = "lowered" =>
        /\ mlowered.panic <=> HasNormalise(mexpr)
        /\ ~ mlowered.panic => mlowered.expr = mexpr

\* LowerToAir of a sum with a Normalise argument
C21_PanickedInSum ==
    /\ mpc = "lowered" /\ mlowered.panic
    /\ mexpr = MirAdd(<<Constant(1), MirNormalise(Constant(2))>>)

\* the arguments of the expression given, folded
FoldedArgs ==
    [i \in 1..Len(mexpr.args) |-> applyConstantPropagation(mexpr.args[i])]

\* C22: constant folding does not change the value of an expression, whatever
\* the value of the column; a Mul with an argument that folds to the constant
\* 0 becomes the constant 0, and an Add or a Mul whose arguments all fold to
\* constants becomes one constant.
C22_FoldingKeepsValue ==
    mpc = "folded" =>
        /\ \A v \in FieldElements : MirEvalAt(mfolded, v) = MirEvalAt(mexpr, v)
        /\ mexpr.op = "mul" =>
              ((\E i \in 1..Len(FoldedArgs) : FoldedArgs[i] = Constant(0))
                  => mfolded = Constant(0))
        /\ mexpr.op \in {"add", "mul"} =>
              ((\A i \in 1..Len(FoldedArgs) : IsConstant(FoldedArgs[i]))
                  => IsConstant(mfolded))

\* a product of the column with a difference that folds to 0
C22_Witness ==
    /\ mpc = "folded"
    /\ mexpr = MirMul(<<ColumnAccess("C"),
                        MirSub(<<Constant(1), Constant(1)>>)>>)
    /\ mfolded = Constant(0)

\* the Sub given has a prefix of two constants and a last argument that does
\* not fold to a constant
ConstantPrefix ==
    /\ mpc = "folded" /\ mexpr.op = "sub" /\ Len(mexpr.args) = 3
    /\ IsConstant(FoldedArgs[1]) /\ IsConstant(FoldedArgs[2])
    /\ ~ IsConstant(FoldedArgs[3])

\* C23: when the first arguments of a Sub fold to constants and a later one
\* does not, the result is a Sub in which the prefix of constants is replaced
\* by the one constant equal to the first minus the others of the prefix.
C23_PrefixFolded ==
    ConstantPrefix =>
        mfolded =
            MirSub(<<Constant((FoldedArgs[1].value + FieldModulus
                               - FoldedArgs[2].value) % FieldModulus),
                     FoldedArgs[3]>>)

\* What applyConstantPropagationSub does with such a prefix: the sum is
\* dropped at the argument that is not a constant, and the Sub returned holds
\* every folded argument.
C23_PrefixKept ==
    ConstantPrefix => mfolded = MirSub(FoldedArgs)

\* the Sub of 2, 1 and the column
C23_TwoConstantsThenColumn ==
    /\ ConstantPrefix
    /\ mexpr = MirSub(<<Constant(2), Constant(1), ColumnAccess("C")>>)
    /\ mfolded = mexpr

\* ---------------------------------- claims on the alignment with a schema
\* the columns of the schema the alignment went through
C24_SchemaColumns == DeclaredColumns(aresult.expand, SchemaDeclarations(hsch))

\* C24: when Align (AlignInputs) returns without error, the trace has as many
\* columns as the schema (as its declarations that are not computed), and
\* the column at each index has the name and the module of the schema column
\* at that index.
C24_AlignedWithSchema ==
    (spc = "aligned" /\ aresult.err = NoFailure) =>
        /\ Len(aresult.trace.cols) = Len(C24_SchemaColumns)
        /\ \A i \in 1..Len(C24_SchemaColumns) :
             aresult.trace.cols[i] = C24_SchemaColumns[i]

\* C24 for the schemas whose columns are pairwise distinct, where it holds
C24_AlignedWhenDistinct ==
    (/\ spc = "aligned"
     /\ aresult.err = NoFailure
     /\ \A i, j \in 1..Len(C24_SchemaColumns) :
          C24_SchemaColumns[i] = C24_SchemaColumns[j] => i = j) =>
        /\ Len(aresult.trace.cols) = Len(C24_SchemaColumns)
        /\ \A i \in 1..Len(C24_SchemaColumns) :
             aresult.trace.cols[i] = C24_SchemaColumns[i]

\* the schema declares X twice and the trace <X, Y> is accepted as <Y, X>
C24_SwappedBack ==
    /\ spc = "aligned"
    /\ aresult.err = NoFailure
    /\ ~ aresult.expand
    /\ hsch.inputs = <<ColumnKey(0, "X"), ColumnKey(0, "X")>>
    /\ atrace = <<ColumnKey(0, "X"), ColumnKey(0, "Y")>>
    /\ aresult.trace.cols = <<ColumnKey(0, "Y"), ColumnKey(0, "X")>>

\* ------------------------------------------- claims on the column indices
\* the indices AddDataColumn and AddAssignment have returned so far, counted
\* from 0: AddDataColumn returned the position of the column in the inputs
C28_Returned ==
    (0..(Len(hsch.inputs) - 1)) \cup { ret[k].index : k \in 1..Len(ret) }

\* C28: an index AddDataColumn or AddAssignment returned keeps identifying its
\* column; no later call changes what Columns() holds at that index.
C28_IndexKeepsColumn ==
    [][\A i \in C28_Returned : Columns(hsch')[i + 1] = Columns(hsch)[i + 1]]_vars

\* C28 for the indices AddDataColumn returned, for which it holds
C28_DataColumnIndexKept ==
    [][\A i \in 0..(Len(hsch.inputs) - 1) :
          Columns(hsch')[i + 1] = Columns(hsch)[i + 1]]_vars

\* C28 for the steps that are not AddDataColumn, for which it holds
C28_KeptByAssignments ==
    [][hsch'.inputs = hsch.inputs =>
          \A i \in C28_Returned : Columns(hsch')[i + 1] = Columns(hsch)[i + 1]]_vars

\* the index AddAssignment returned for the first assignment is now that of
\* an input column added after it
C28_AssignmentDisplaced ==
    /\ Len(ret) >= 1
    /\ ret[1].index = ret[1].inputs
    /\ Len(hsch.inputs) > ret[1].inputs
    /\ Columns(hsch)[ret[1].index + 1].kind = "input"

\* ----------------------------------------- claims on the enclosing module
\* C29: DetermineEnclosingModuleOfExpressions returns an error exactly when
\* JoinContexts reports a conflict on the same list, and the module and the
\* length multiplier of JoinContexts otherwise.
C29_AgreesWithJoinContexts ==
    epc = "determined" =>
        /\ (dresult.err # <<>>) = ~JoinContexts(jargs).ok
        /\ dresult.err = <<>> =>
              /\ dresult.mid = JoinContexts(jargs).mid
              /\ dresult.multiplier = JoinContexts(jargs).multiplier

\* C29 for the lists whose first expression has a context, where it holds
C29_AgreesAfterContext ==
    (epc = "determined" /\ jargs[1].ok /\ jargs[1].mid # MaxUint) =>
        /\ (dresult.err # <<>>) = ~JoinContexts(jargs).ok
        /\ dresult.err = <<>> =>
              /\ dresult.mid = JoinContexts(jargs).mid
              /\ dresult.multiplier = JoinContexts(jargs).multiplier

\* the module returned is that of JoinContexts whenever neither fails
C29_SameModule ==
    (epc = "determined" /\ dresult.err = <<>> /\ JoinContexts(jargs).ok) =>
        dresult.mid = JoinContexts(jargs).mid

\* the first expression has no context and the two after it agree on another
\* multiplier: an error is returned where JoinContexts has no conflict
C29_StaleMultiplier ==
    /\ epc = "determined"
    /\ jargs = <<SubContext(MaxUint, 1, TRUE), SubContext(0, 2, TRUE),
                 SubContext(0, 2, TRUE)>>
    /\ dresult.err = ConflictingMultipliers
    /\ JoinContexts(jargs) = SubContext(0, 2, TRUE)

\* without an error, the multiplier returned is that of the first expression
C29_FirstMultiplierReturned ==
    /\ epc = "determined"
    /\ jargs = <<SubContext(MaxUint, 1, TRUE), SubContext(0, 2, TRUE)>>
    /\ dresult = [mid |-> 0, multiplier |-> 1, err |-> <<>>]

\* ------------------------------------------ claims on the trace of a run
\* the schema of the first call of checkTrace of the run
C30_FirstSchema ==
    IF SelectedLevels(cfg) = <<>> THEN cschema
    ELSE SchemaAt(SelectedLevels(cfg)[1], cschema)

\* the trace of the run as the first call of checkTrace leaves it
C30_AfterFirstCall ==
    Caller(ctrace, cfg, checkTrace(ctrace, C30_FirstSchema, cfg))

\* C30: checkTrace does not modify the trace it is given, with the expansion
\* and without it: its columns, their order and its rows are the same after
\* the call.
C30_TraceNotModified ==
    kpc = "exited" => C30_AfterFirstCall = ctrace

\* C30 for the traces whose columns are those of the schema, in its order,
\* where it holds
C30_AlignedTraceKept ==
    (kpc = "exited" /\ ctrace.cols = cschema.columns) =>
        C30_AfterFirstCall = ctrace

\* C30 under the expansion, where it holds
C30_ExpandedTraceKept ==
    (kpc = "exited" /\ cfg.expand) => C30_AfterFirstCall = ctrace

\* under --raw the rows of the trace are kept: the columns only are changed
C30_RowsKept ==
    kpc = "exited" =>
        /\ C30_AfterFirstCall.data = ctrace.data
        /\ C30_AfterFirstCall.padding = ctrace.padding

\* under --raw the columns <U, X> are swapped in the trace of the caller, and
\* the levels of the default mode are not given the same trace
C30_ColumnsSwapped ==
    /\ kpc = "exited"
    /\ ~ cfg.expand
    /\ ~ cfg.hir /\ ~ cfg.mir /\ ~ cfg.air
    /\ cschema.columns = <<"X", "U">>
    /\ ctrace.cols = <<"U", "X">>
    /\ C30_AfterFirstCall.cols = <<"X", "U">>
    /\ exitCode = 0

\* ------------------------------------------- claims on the finalise loop
\* C25: the finalise loop terminates for every list of declarations, cyclic
\* or not, after at most four passes over the list, and it returns no error
\* or a list of errors that is not empty.
C25_LoopTerminates ==
    /\ <>(rpc = "done")
    /\ [](npass <= IterationCap)
    /\ [](rpc = "done" => (returned = "nil") = (Len(result) > 0))

\* a cyclic list with a declaration that is always ready: every pass sets
\* changed, and the loop ends at the fourth pass by its counter
C25_CyclicStoppedByCounter ==
    /\ rpc = "done"
    /\ npass = IterationCap
    /\ counter = 0
    /\ \E d \in 1..Len(decls) : ~DeclIsFinalised(scope, decls[d])
    /\ result = <<SyntaxError(incomplete, "unable to complete resolution")>>

\* the declarations of the list that are interleavings or permutations
C26_Computed ==
    { d \in 1..Len(decls) :
        decls[d].kind \in {"definterleaved", "defpermutation"} }

\* C26: once the binding of a column defined by an interleaving or by a
\* permutation is finalised, no later step of the finalise loop changes its
\* type or its length multiplier, although the declaration is finalised again
\* in the later passes.
C26_FinalisedBindingKept ==
    [][\A d \in C26_Computed : \A i \in 1..Len(decls[d].targets) :
          IsFinalised(scope[decls[d].targets[i].name]) =>
              scope'[decls[d].targets[i].name] =
                  scope[decls[d].targets[i].name]]_vars

\* an interleaving and a permutation finalised in one pass and again, without
\* error, in a later one
C26_FinalisedAgain ==
    \E k, j, l, m \in 1..Len(log) :
        /\ log[k].decl = log[j].decl
        /\ log[k].pass < log[j].pass
        /\ log[k].nerrors = 0 /\ log[j].nerrors = 0
        /\ decls[log[k].decl].kind = "definterleaved"
        /\ log[l].decl = log[m].decl
        /\ log[l].pass < log[m].pass
        /\ log[l].nerrors = 0 /\ log[m].nerrors = 0
        /\ decls[log[l].decl].kind = "defpermutation"

\* --------------------------------- claims on the order of the declarations
\* the lists that hold the declarations of ds in another order
Reordered(ds) ==
    { [i \in 1..Len(ds) |-> ds[p[i]]] : p \in Permutations(1..Len(ds)) }

\* C27: whether a module resolves without error does not depend on the order
\* of its declarations: when the list is accepted, so is the list with the
\* same declarations in any other order.
C27_OrderIndependent ==
    (rpc = "done" /\ result = <<>>) =>
        \A ds \in Reordered(decls) : resolveDeclarationsInModule(ds) = <<>>

\* the run of the resolver returns what the function of the list returns
C27_RunIsFunction ==
    rpc = "done" => result = resolveDeclarationsInModule(decls)

\* C27 for the lists of up to three interleavings and permutations, where
\* it holds
C27_ShortListsIndependent ==
    (rpc = "done" /\ result = <<>> /\ Cardinality(C26_Computed) <= 3) =>
        \A ds \in Reordered(decls) : resolveDeclarationsInModule(ds) = <<>>

\* the chain X, A, B, C, D of interleavings is accepted in this order and
\* rejected in the reverse order
C27_ReverseChainRejected ==
    /\ rpc = "done"
    /\ result = <<>>
    /\ decls = <<DefColumns(<<DefColumn("X", 1, UintType(8))>>),
                 DefInterleaved("A", <<"X">>), DefInterleaved("B", <<"A">>),
                 DefInterleaved("C", <<"B">>), DefInterleaved("D", <<"C">>)>>
    /\ resolveDeclarationsInModule([i \in 1..5 |-> decls[6 - i]]) =
          <<SyntaxError(1, "unable to complete resolution")>>

====
